---- MODULE Spec2Model ----
(***************************************************************************)
(* Rubric-driven grading engine of investment-workflow-evals               *)
(* (tools/grading_engine.py) and the evaluation-run orchestrator           *)
(* (tools/eval_runner.py).                                                 *)
(*                                                                         *)
(* Representation.                                                         *)
(*  - A Python dict is a function whose DOMAIN is the set of keys present; *)
(*    dict.get(k, d) is Get(m, k, d).                                      *)
(*  - A submission (ai_output) is a record [text, matches].  text is a     *)
(*    sequence of segments <<token, n>> (token repeated n times) over a    *)
(*    fixed vocabulary; every vocabulary token has its characters (as      *)
(*    whitespace "w" / other "c"), the literals it contains and the        *)
(*    critical-check regexes it matches.  matches gives, for the regex     *)
(*    pattern groups of the dimension scorers, the number of matches the   *)
(*    pattern group has in the submission.                                 *)
(*  - Scores are integers (every heuristic score is an integer-valued      *)
(*    float); weights are in hundredths (0.5 is 50, 50 is 5000); an        *)
(*    overall score is an exact fraction <<numerator, denominator>> in     *)
(*    the specifications Spec, SpecScorer and SpecAggregator.              *)
(*  - SpecFloat runs the aggregator on Python floats (IEEE 754 binary64,   *)
(*    round to nearest even), where an overall score is a float <<N, K>>.  *)
(***************************************************************************)
EXTENDS Integers, Sequences, FiniteSets, TLC

(* ---------------------------------------------------------------------- *)
(* Generic helpers                                                         *)
(* ---------------------------------------------------------------------- *)

Get(m, k, d) == IF k \in DOMAIN m THEN m[k] ELSE d

EmptyMap == [k \in {} |-> 0]

Min(a, b) == IF a <= b THEN a ELSE b

Max(a, b) == IF a >= b THEN a ELSE b

Range(s) == {s[i] : i \in DOMAIN s}

Abs(a) == IF a < 0 THEN 0 - a ELSE a

RECURSIVE GCD(_, _)
GCD(a, b) == IF b = 0 THEN a ELSE GCD(b, a % b)

(* the value n / d (d # 0) as a fraction <<numerator, denominator>> in    *)
(* lowest terms with a positive denominator                                *)
Frac(n, d) ==
  LET g == GCD(Abs(n), Abs(d))
  IN IF d < 0 THEN <<(0 - n) \div g, (0 - d) \div g>> ELSE <<n \div g, d \div g>>

FracEq(a, b) == a = b

FracGeqInt(a, t) == a[1] >= t * a[2]

(* ---------------------------------------------------------------------- *)
(* Python float arithmetic (IEEE 754 binary64, round to nearest even)      *)
(*                                                                         *)
(* A natural number of any size is a sequence of limbs, least significant  *)
(* first, in base 2^15, with no leading zero limb.  A float is <<N, K>>,   *)
(* the value N / 2^K, with N odd or K = 0.  Every value the aggregator     *)
(* handles is non-negative, below 2^53 and far above the subnormal range.  *)
(* ---------------------------------------------------------------------- *)

LimbBits == 15

Limb == 32768

MantissaBits == 53

RECURSIVE Pow2(_)
Pow2(n) == IF n = 0 THEN 1 ELSE 2 * Pow2(n - 1)

LimbAt(a, i) == IF i \in DOMAIN a THEN a[i] ELSE 0

Norm(a) ==
  LET nz == {i \in DOMAIN a : a[i] # 0}
  IN IF nz = {} THEN <<>>
     ELSE SubSeq(a, 1, CHOOSE i \in nz : \A j \in nz : j <= i)

RECURSIVE BigOfInt(_)
BigOfInt(n) == IF n = 0 THEN <<>> ELSE <<n % Limb>> \o BigOfInt(n \div Limb)

RECURSIVE AddFrom(_, _, _, _)
AddFrom(a, b, i, carry) ==
  IF i > Len(a) /\ i > Len(b)
  THEN IF carry = 0 THEN <<>> ELSE <<carry>>
  ELSE LET s == LimbAt(a, i) + LimbAt(b, i) + carry
       IN <<s % Limb>> \o AddFrom(a, b, i + 1, s \div Limb)

BigAdd(a, b) == AddFrom(a, b, 1, 0)

(* a - b for a >= b *)
RECURSIVE SubFrom(_, _, _, _)
SubFrom(a, b, i, borrow) ==
  IF i > Len(a) THEN <<>>
  ELSE LET s == a[i] - LimbAt(b, i) - borrow
       IN IF s < 0 THEN <<s + Limb>> \o SubFrom(a, b, i + 1, 1)
          ELSE <<s>> \o SubFrom(a, b, i + 1, 0)

BigSub(a, b) == Norm(SubFrom(a, b, 1, 0))

BigGeq(a, b) ==
  IF Len(a) # Len(b) THEN Len(a) > Len(b)
  ELSE LET diff == {i \in DOMAIN a : a[i] # b[i]}
       IN IF diff = {} THEN TRUE
          ELSE LET top == CHOOSE i \in diff : \A j \in diff : j <= i
               IN a[top] > b[top]

(* a * k + carry for 0 <= k < 2^15 *)
RECURSIVE MulSmallFrom(_, _, _, _)
MulSmallFrom(a, k, i, carry) ==
  IF i > Len(a) THEN IF carry = 0 THEN <<>> ELSE <<carry>>
  ELSE LET s == a[i] * k + carry
       IN <<s % Limb>> \o MulSmallFrom(a, k, i + 1, s \div Limb)

BigMulSmall(a, k) == Norm(MulSmallFrom(a, k, 1, 0))

ShiftLimbs(a, n) == IF a = <<>> THEN <<>> ELSE [i \in 1..n |-> 0] \o a

RECURSIVE MulFrom(_, _, _)
MulFrom(a, b, j) ==
  IF j > Len(b) THEN <<>>
  ELSE BigAdd(ShiftLimbs(BigMulSmall(a, b[j]), j - 1), MulFrom(a, b, j + 1))

BigMul(a, b) == MulFrom(a, b, 1)

(* a * 2^n *)
BigShl(a, n) ==
  ShiftLimbs(BigMulSmall(a, Pow2(n % LimbBits)), n \div LimbBits)

(* floor(a / 2^n) *)
BigShr(a, n) ==
  LET q == n \div LimbBits
      r == n % LimbBits
  IN Norm([i \in 1..Max(Len(a) - q, 0) |->
             (a[i + q] \div Pow2(r))
               + (LimbAt(a, i + q + 1) % Pow2(r)) * Pow2(LimbBits - r)])

RECURSIVE SmallBitLen(_)
SmallBitLen(n) == IF n = 0 THEN 0 ELSE 1 + SmallBitLen(n \div 2)

BitLen(a) ==
  IF a = <<>> THEN 0 ELSE LimbBits * (Len(a) - 1) + SmallBitLen(a[Len(a)])

(* bit i of a, bit 0 the least significant *)
Bit(a, i) == (LimbAt(a, i \div LimbBits + 1) \div Pow2(i % LimbBits)) % 2

(* a mod 2^n = 0 *)
LowBitsZero(a, n) == BigShl(BigShr(a, n), n) = a

(* one step of long division: << q, r >> with rem * 2^15 + limb = q * b + r *)
(* and 0 <= r < b, for rem < b; S[t, acc] settles the low t bits of the     *)
(* quotient limb whose higher bits are acc                                  *)
DivStep(rem, b, limb) ==
  LET x == Norm(<<limb>> \o rem)
      S[t \in 0..LimbBits, acc \in 0..(Limb - 1)] ==
        IF t = 0 THEN acc
        ELSE LET cand == acc + Pow2(t - 1)
             IN IF BigGeq(x, BigMulSmall(b, cand)) THEN S[t - 1, cand]
                ELSE S[t - 1, acc]
      q == S[LimbBits, 0]
  IN <<q, BigSub(x, BigMulSmall(b, q))>>

(* << floor(a / b), a mod b >> for b # 0, by long division from the top     *)
(* limb: E[j, q, rem] has j limbs of a left to bring down                   *)
BigDivMod(a, b) ==
  LET E[j \in 0..Len(a), q \in Seq(0..(Limb - 1)), rem \in Seq(0..(Limb - 1))] ==
        IF j = 0 THEN <<Norm(q), rem>>
        ELSE LET st == DivStep(rem, b, a[j])
             IN E[j - 1, <<st[1]>> \o q, st[2]]
  IN E[Len(a), <<>>, <<>>]

(* the number of trailing zero bits of a # 0, at most limit *)
TrailingZeros(a, limit) ==
  LET ones == {i \in 0..(BitLen(a) - 1) : Bit(a, i) = 1}
  IN Min(limit, CHOOSE i \in ones : \A j \in ones : i <= j)

(* the canonical form of n / 2^k *)
Canon(n, k) ==
  IF n = <<>> THEN <<n, 0>>
  ELSE LET s == TrailingZeros(n, k) IN <<BigShr(n, s), k - s>>

(* the float nearest to (n + f) / 2^k, ties to even, where 0 <= f < 1 and *)
(* sticky tells whether f # 0                                             *)
Round(n, k, sticky) ==
  LET len == BitLen(n)
      d == len - MantissaBits
  IN IF d <= 0 THEN Canon(n, k)
     ELSE LET q == BigShr(n, d)
              guard == Bit(n, d - 1) = 1
              rest == sticky \/ ~LowBitsZero(n, d - 1)
              up == guard /\ (rest \/ Bit(q, 0) = 1)
              m == IF up THEN BigAdd(q, <<1>>) ELSE q
          IN IF d <= k THEN Canon(m, k - d) ELSE <<BigShl(m, d - k), 0>>

(* the float nearest to a / b, b # 0 *)
RoundRat(a, b) ==
  IF a = <<>> THEN <<a, 0>>
  ELSE LET s == Max(0, MantissaBits + 2 + BitLen(b) - BitLen(a))
           qr == BigDivMod(BigShl(a, s), b)
       IN Round(qr[1], s, qr[2] # <<>>)

FloatOfInt(n) == Canon(BigOfInt(n), 0)

FloatMul(x, y) == Round(BigMul(x[1], y[1]), x[2] + y[2], FALSE)

FloatAdd(x, y) ==
  LET k == Max(x[2], y[2])
  IN Round(BigAdd(BigShl(x[1], k - x[2]), BigShl(y[1], k - y[2])), k, FALSE)

FloatDiv(x, y) == RoundRat(BigShl(x[1], y[2]), BigShl(y[1], x[2]))

FloatGeq(x, y) ==
  LET k == Max(x[2], y[2])
  IN BigGeq(BigShl(x[1], k - x[2]), BigShl(y[1], k - y[2]))

(* the float a YAML rubric holds for a weight given in hundredths: 30 is  *)
(* the literal 0.3, 3000 the literal 30                                   *)
FloatOfHundredths(w) == RoundRat(BigOfInt(w), BigOfInt(100))

(* ---------------------------------------------------------------------- *)
(* Vocabulary of submission tokens                                         *)
(* ---------------------------------------------------------------------- *)

C(n) == [i \in 1..n |-> "c"]

W1 == <<"w">>

Vocab ==
  {"x", " ", "## Risks", "Risk Assessment", "downside", "upside",
   "thesis", "valuation", "risk", "catalyst", "position",
   "guaranteed", "risk-free", "Buy this stock,", "returns.",
   "$5", "$5M", "$7M", "probability", "revenue",
   "attribution", "hedging framework", "terminal value"}

(* the characters of a token: whitespace "w" or anything else "c" *)
TokChars(t) ==
  CASE t = "x" -> C(1)
    [] t = " " -> W1
    [] t = "## Risks" -> C(2) \o W1 \o C(5)
    [] t = "Risk Assessment" -> C(4) \o W1 \o C(10)
    [] t = "downside" -> C(8)
    [] t = "upside" -> C(6)
    [] t = "thesis" -> C(6)
    [] t = "valuation" -> C(9)
    [] t = "risk" -> C(4)
    [] t = "catalyst" -> C(8)
    [] t = "position" -> C(8)
    [] t = "guaranteed" -> C(10)
    [] t = "risk-free" -> C(9)
    [] t = "Buy this stock," -> C(3) \o W1 \o C(4) \o W1 \o C(6)
    [] t = "returns." -> C(8)
    [] t = "$5" -> C(2)
    [] t = "$5M" -> C(3)
    [] t = "$7M" -> C(3)
    [] t = "probability" -> C(11)
    [] t = "revenue" -> C(7)
    [] t = "attribution" -> C(11)
    [] t = "hedging framework" -> C(7) \o W1 \o C(9)
    [] t = "terminal value" -> C(8) \o W1 \o C(5)
    [] OTHER -> <<>>

(* the lower-case literals searched for by the engine that occur in the   *)
(* lower-cased token                                                       *)
Literals(t) ==
  CASE t = "## Risks" -> {"risk"}
    [] t = "Risk Assessment" -> {"risk"}
    [] t = "risk" -> {"risk"}
    [] t = "risk-free" -> {"risk"}
    [] t = "downside" -> {"downside"}
    [] t = "upside" -> {"upside"}
    [] t = "thesis" -> {"thesis"}
    [] t = "valuation" -> {"valuation"}
    [] t = "catalyst" -> {"catalyst"}
    [] t = "position" -> {"position"}
    [] t = "probability" -> {"probability"}
    [] t = "revenue" -> {"revenue"}
    [] OTHER -> {}

(* indices (1-based) of the risk_patterns that match the token *)
RiskPatternsOf(t) ==
  CASE t = "## Risks" -> {1}
    [] t = "Risk Assessment" -> {3}
    [] t = "downside" -> {5}
    [] OTHER -> {}

(* indices of the guarantee_patterns that match the token *)
GuaranteePatternsOf(t) ==
  CASE t = "guaranteed" -> {1}
    [] t = "risk-free" -> {6}
    [] OTHER -> {}

(* only the first of the calculation_context_patterns is tried *)
CalcPatternsOfMutant(t) ==
  CASE t = "position" -> {1}
    [] OTHER -> {}

(* indices of the calculation_context_patterns that match the token;      *)
(* "valuation" or "hedging" without value/framework/instrument within 20   *)
(* characters matches none                                                 *)
CalcPatternsOf(t) ==
  CASE t = "position" -> {1}
    [] t = "attribution" -> {2}
    [] t = "hedging framework" -> {3}
    [] t = "terminal value" -> {4}
    [] OTHER -> {}

(* tokens matched by \$[\d,.]+[BMK]? *)
IsDollarFigure(t) == t \in {"$5", "$5M", "$7M"}

(* tokens matched by \$[\d,.]+[BMK]?|\d+\.?\d*%|\d{4} in a fact *)
IsFactNumber(t) == t \in {"$5M", "$7M"}

(* tokens matched by one of prob_patterns (\d+%, probability, likelihood, *)
(* chance)                                                                 *)
IsProbabilityToken(t) == t \in {"probability"}

(* tokens matched by one of the binary-outcome scenario_patterns *)
IsScenarioToken(t) == t \in {"catalyst"}

(* ---------------------------------------------------------------------- *)
(* Text operations                                                         *)
(* ---------------------------------------------------------------------- *)

Rep(t, n) == [i \in 1..n |-> t]

RECURSIVE Tokens(_)
Tokens(text) ==
  IF text = <<>> THEN <<>>
  ELSE Rep(Head(text)[1], Head(text)[2]) \o Tokens(Tail(text))

(* the characters of a token repeated n times *)
RepChars(t, n) ==
  LET cs == TokChars(t)
  IN [i \in 1..(Len(cs) * n) |-> cs[((i - 1) % Len(cs)) + 1]]

RECURSIVE CharsOf(_)
CharsOf(text) ==
  IF text = <<>> THEN <<>>
  ELSE RepChars(Head(text)[1], Head(text)[2]) \o CharsOf(Tail(text))

(* kw in ai_output.lower() *)
Contains(text, kw) == \E seg \in Range(text) : seg[2] > 0 /\ kw \in Literals(seg[1])

(* ai_output[a : a + n], a 0-based *)
Slice(chars, a, n) == SubSeq(chars, a + 1, Min(a + n, Len(chars)))

(* str.strip(): without the leading and trailing whitespace *)
Strip(chars) ==
  LET body == {i \in DOMAIN chars : chars[i] # "w"}
  IN IF body = {} THEN <<>>
     ELSE SubSeq(chars, CHOOSE i \in body : \A j \in body : i <= j,
                 CHOOSE i \in body : \A j \in body : i >= j)

(* ---------------------------------------------------------------------- *)
(* Critical-failure detector                                               *)
(* ---------------------------------------------------------------------- *)

NumRiskPatterns == 11

RiskWindow == 200

MinRiskContent == 50

NumGuaranteePatterns == 6

NumCalcPatterns == 4

FigureLimit == 10

UnmatchedLimit == 5

(* re.search(pattern, ai_output): index of the segment whose first token  *)
(* is the first match of the pattern, 0 when there is no match            *)
PatternsOf(list, tok) ==
  CASE list = "risk_patterns" -> RiskPatternsOf(tok)
    [] list = "guarantee_patterns" -> GuaranteePatternsOf(tok)
    [] list = "calculation_context_patterns" -> CalcPatternsOf(tok)

FirstMatch(text, p, list) ==
  LET hits == {i \in DOMAIN text :
                 text[i][2] > 0 /\ p \in PatternsOf(list, text[i][1])}
  IN IF hits = {} THEN 0 ELSE CHOOSE i \in hits : \A j \in hits : i <= j

(* match.end() of the match that starts segment i *)
MatchEnd(text, i) ==
  Len(CharsOf(SubSeq(text, 1, i - 1))) + Len(TokChars(text[i][1]))

(* the body text found for one risk pattern, <<>> when it has no match *)
AfterHeader(text, p) ==
  LET i == FirstMatch(text, p, "risk_patterns")
  IN IF i = 0 THEN <<>>
     ELSE Slice(CharsOf(text), MatchEnd(text, i), RiskWindow)

_has_risk_section(text) ==
  \E p \in 1..NumRiskPatterns :
    /\ FirstMatch(text, p, "risk_patterns") # 0
    /\ Len(Strip(AfterHeader(text, p))) > MinRiskContent

HasGuaranteeLanguageMutant(text) ==
  \E p \in 2..NumGuaranteePatterns :
    FirstMatch(text, p, "guarantee_patterns") # 0

_has_guarantee_language(text) ==
  \E p \in 1..NumGuaranteePatterns :
    FirstMatch(text, p, "guarantee_patterns") # 0

(* fig in str(fv): the figure is a substring of the fact value *)
FigIn(fig, fv) == fig = fv \/ (fig = "$5" /\ fv = "$5M")

RECURSIVE FactValues(_)
FactValues(key_facts) ==
  IF key_facts = <<>> THEN <<>>
  ELSE SelectSeq(Tokens(Get(Head(key_facts), "fact", <<>>)), IsFactNumber)
         \o FactValues(Tail(key_facts))

DetectHallucinationMutant(text, scenario) ==
  LET key_facts == Get(scenario, "key_facts", <<>>)
      fact_values == FactValues(key_facts)
      output_figures == SelectSeq(Tokens(text), IsDollarFigure)
      has_calculation_context ==
        \E p \in 1..NumCalcPatterns :
          FirstMatch(text, p, "calculation_context_patterns") # 0
      unmatched_count ==
        Cardinality({i \in DOMAIN output_figures :
                       ~ \E j \in DOMAIN fact_values :
                           FigIn(output_figures[i], fact_values[j])})
  IN IF has_calculation_context THEN FALSE
     ELSE unmatched_count > UnmatchedLimit

_detect_hallucination(text, scenario) ==
  LET key_facts == Get(scenario, "key_facts", <<>>)
      fact_values == FactValues(key_facts)
      output_figures == SelectSeq(Tokens(text), IsDollarFigure)
      has_calculation_context ==
        \E p \in 1..NumCalcPatterns :
          FirstMatch(text, p, "calculation_context_patterns") # 0
      checked == SubSeq(output_figures, 1, Min(FigureLimit, Len(output_figures)))
      unmatched_count ==
        Cardinality({i \in DOMAIN checked :
                       ~ \E j \in DOMAIN fact_values : FigIn(checked[i], fact_values[j])})
  IN IF has_calculation_context THEN FALSE
     ELSE unmatched_count > UnmatchedLimit

(* scenario-declared critical-failure descriptions *)
ScenarioRules ==
  {"No probability estimate provided", "Ignores binary nature of outcome",
   "Fails to cite sources"}

(* phrase in critical_failure.lower() *)
RuleMentions(critical, phrase) ==
  \/ critical = "No probability estimate provided" /\ phrase = "no probability estimate"
  \/ critical = "Ignores binary nature of outcome"
       /\ phrase \in {"ignores binary", "binary nature"}

_check_scenario_critical_failure(text, critical) ==
  IF RuleMentions(critical, "no probability estimate")
  THEN ~ \E seg \in Range(text) : seg[2] > 0 /\ IsProbabilityToken(seg[1])
  ELSE IF RuleMentions(critical, "ignores binary") \/ RuleMentions(critical, "binary nature")
  THEN ~ \E seg \in Range(text) : seg[2] > 0 /\ IsScenarioToken(seg[1])
  ELSE FALSE

(* f"Scenario critical failure: {critical}" *)
ScenarioFailure(critical) ==
  CASE critical = "No probability estimate provided"
         -> "Scenario critical failure: No probability estimate provided"
    [] critical = "Ignores binary nature of outcome"
         -> "Scenario critical failure: Ignores binary nature of outcome"
    [] OTHER -> "Scenario critical failure: Fails to cite sources"

RECURSIVE ScenarioFailures(_, _)
ScenarioFailures(text, scenario_critical) ==
  IF scenario_critical = <<>> THEN <<>>
  ELSE (IF _check_scenario_critical_failure(text, Head(scenario_critical))
        THEN <<ScenarioFailure(Head(scenario_critical))>> ELSE <<>>)
         \o ScenarioFailures(text, Tail(scenario_critical))

CheckCriticalFailuresMutant(ai_output, scenario) ==
  LET text == ai_output.text
      scenario_critical ==
        Get(Get(scenario, "evaluation_criteria", EmptyMap), "critical_failures", <<>>)
  IN IF _detect_hallucination(text, scenario)
     THEN <<"Potential hallucinated data detected">>
     ELSE IF ~ _has_risk_section(text)
     THEN <<"Missing or inadequate risk assessment section">>
     ELSE IF _has_guarantee_language(text)
     THEN <<"Contains forward-looking guarantees">>
     ELSE ScenarioFailures(text, scenario_critical)

_check_critical_failures(ai_output, scenario) ==
  LET text == ai_output.text
      scenario_critical ==
        Get(Get(scenario, "evaluation_criteria", EmptyMap), "critical_failures", <<>>)
  IN (IF _detect_hallucination(text, scenario)
      THEN <<"Potential hallucinated data detected">> ELSE <<>>)
     \o (IF ~ _has_risk_section(text)
         THEN <<"Missing or inadequate risk assessment section">> ELSE <<>>)
     \o (IF _has_guarantee_language(text)
         THEN <<"Contains forward-looking guarantees">> ELSE <<>>)
     \o ScenarioFailures(text, scenario_critical)

(* ---------------------------------------------------------------------- *)
(* Dimension scorers                                                       *)
(* ---------------------------------------------------------------------- *)

(* number of matches of a scorer's regex pattern group in the submission *)
M(ai_output, group) == Get(ai_output.matches, group, 0)

ClampMutant(score) == score

(* min(100.0, max(0.0, score)) *)
Clamp(score) == Min(100, Max(0, score))

(* "; ".join(feedback_parts) if feedback_parts else default *)
Feedback(feedback_parts, default) ==
  IF feedback_parts # <<>> THEN feedback_parts ELSE <<default>>

(* fact.split() of a fact made of one-word tokens *)
Words(fact) == SelectSeq(Tokens(fact), LAMBDA t : t # " ")

(* critical facts one of whose first five words (longer than 4          *)
(* characters) occurs in the submission                                    *)
FactsFound(ai_output, scenario) ==
  LET key_facts == Get(scenario, "key_facts", <<>>)
  IN Cardinality({i \in DOMAIN key_facts :
       /\ Get(key_facts[i], "importance", "none") = "critical"
       /\ LET words == Words(Get(key_facts[i], "fact", <<>>))
              key_terms == SubSeq(words, 1, Min(5, Len(words)))
          IN \E k \in DOMAIN key_terms :
               /\ Len(TokChars(key_terms[k])) > 4
               /\ Contains(ai_output.text, key_terms[k])})

_score_factual_accuracy(ai_output, scenario) ==
  LET citation_count == M(ai_output, "citation_count")
      facts_found == FactsFound(ai_output, scenario)
      s1 == IF citation_count >= 5 THEN <<10, <<"Good citation density">> >>
            ELSE IF citation_count >= 2 THEN <<5, <<"Adequate citations present">> >>
            ELSE <<0 - 10, <<"Insufficient citations">> >>
      s2 == IF facts_found >= 3 THEN <<10, <<"Key facts addressed">> >>
            ELSE IF facts_found >= 1 THEN <<5, <<"Some key facts addressed">> >>
            ELSE <<0, <<>> >>
  IN <<Clamp(70 + s1[1] + s2[1]),
       Feedback(s1[2] \o s2[2], "Standard factual accuracy")>>

_score_analytical_rigor(ai_output, scenario) ==
  LET scenario_keywords ==
        {"bull case", "bear case", "base case", "upside", "downside", "scenario"}
      scenario_count ==
        Cardinality({kw \in scenario_keywords : Contains(ai_output.text, kw)})
      assumption_count == M(ai_output, "assumption_count")
      structure_count == M(ai_output, "structure_count")
      s1 == IF scenario_count >= 3 THEN <<15, <<"Good scenario analysis present">> >>
            ELSE IF scenario_count >= 1 THEN <<5, <<"Some scenario consideration">> >>
            ELSE <<0 - 10, <<"Limited scenario analysis">> >>
      s2 == IF assumption_count >= 5 THEN <<10, <<"Assumptions are explicit">> >>
            ELSE IF assumption_count >= 2 THEN <<5, <<"Some assumptions stated">> >>
            ELSE <<0, <<>> >>
      s3 == IF structure_count >= 3 THEN <<5, <<"Good logical flow">> >>
            ELSE <<0, <<>> >>
  IN <<Clamp(70 + s1[1] + s2[1] + s3[1]),
       Feedback(s1[2] \o s2[2] \o s3[2], "Standard analytical rigor")>>

_score_risk_assessment(ai_output, scenario) ==
  LET risk_section_match == M(ai_output, "risk_section_match") > 0
      risk_items == M(ai_output, "risk_items")
      has_assessment == M(ai_output, "has_assessment") > 0
      has_mitigation == M(ai_output, "has_mitigation") > 0
      s1 == IF risk_section_match
            THEN IF risk_items >= 5 THEN <<20, <<"Comprehensive risk list">> >>
                 ELSE IF risk_items >= 3 THEN <<10, <<"Adequate risk coverage">> >>
                 ELSE <<0, <<"Limited risk identification">> >>
            ELSE <<0 - 15, <<"No clear risk section">> >>
      s2 == IF has_assessment
            THEN <<15, <<"Includes probability/impact assessment">> >> ELSE <<0, <<>> >>
      s3 == IF has_mitigation
            THEN <<5, <<"Discusses risk mitigation">> >> ELSE <<0, <<>> >>
  IN <<Clamp(60 + s1[1] + s2[1] + s3[1]),
       Feedback(s1[2] \o s2[2] \o s3[2], "Standard risk assessment")>>

_score_evidence_quality(ai_output, scenario) ==
  LET source_count == M(ai_output, "source_count")
      has_calculations == M(ai_output, "has_calculations") > 0
      s1 == IF source_count >= 5 THEN <<15, <<"Excellent source citations">> >>
            ELSE IF source_count >= 2 THEN <<10, <<"Good source references">> >>
            ELSE <<0 - 5, <<"Limited source citations">> >>
      s2 == IF has_calculations
            THEN <<10, <<"Includes shown calculations">> >> ELSE <<0, <<>> >>
  IN <<Clamp(70 + s1[1] + s2[1]),
       Feedback(s1[2] \o s2[2], "Standard evidence quality")>>

(* required_sections of the completeness scorer *)
SectionKeywords(section) ==
  CASE section = "thesis" -> {"thesis", "investment case", "recommendation"}
    [] section = "valuation" -> {"valuation", "price target", "fair value"}
    [] section = "risks" -> {"risk", "downside", "bear case"}
    [] section = "catalyst" -> {"catalyst", "trigger", "timeline", "event"}
    [] section = "position" -> {"position", "sizing", "allocation", "portfolio"}

RequiredSections == {"thesis", "valuation", "risks", "catalyst", "position"}

SectionsFoundMutant(ai_output) ==
  {section \in RequiredSections \ {"position"} :
     \E kw \in SectionKeywords(section) : Contains(ai_output.text, kw)}

SectionsFound(ai_output) ==
  {section \in RequiredSections :
     \E kw \in SectionKeywords(section) : Contains(ai_output.text, kw)}

_score_completeness(ai_output, scenario) ==
  LET found == Cardinality(SectionsFound(ai_output))
      total == Cardinality(RequiredSections)
      has_bull == \E kw \in {"bull", "upside", "positive"} : Contains(ai_output.text, kw)
      has_bear ==
        \E kw \in {"bear", "downside", "risk", "concern"} : Contains(ai_output.text, kw)
      s1 == IF 10 * found >= 9 * total THEN <<25, <<"All major sections covered">> >>
            ELSE IF 10 * found >= 7 * total THEN <<15, <<"Most sections covered">> >>
            ELSE IF 10 * found >= 5 * total THEN <<5, <<"Some sections missing">> >>
            ELSE <<0 - 15, <<"Missing sections">> >>
      s2 == IF has_bull /\ has_bear
            THEN <<10, <<"Balanced bull/bear presentation">> >> ELSE <<0, <<>> >>
  IN <<Clamp(60 + s1[1] + s2[1]),
       Feedback(s1[2] \o s2[2], "Standard completeness")>>

_score_alpha_environment(ai_output, scenario) ==
  LET s1 == IF M(ai_output, "separation_count") >= 2 THEN <<25, <<"Strong alpha/environment separation">> >>
            ELSE IF M(ai_output, "separation_count") >= 1 THEN <<15, <<"Some alpha/environment distinction">> >>
            ELSE <<0 - 10, <<"No alpha/environment separation">> >>
      s2 == IF M(ai_output, "has_quantification") > 0 THEN <<15, <<"Quantifies driver contributions">> >>
            ELSE <<0, <<>> >>
      s3 == IF M(ai_output, "has_extrapolation_awareness") > 0 THEN <<10, <<"Warns against environmental extrapolation">> >>
            ELSE <<0, <<>> >>
  IN <<Clamp(50 + s1[1] + s2[1] + s3[1]),
       Feedback(s1[2] \o s2[2] \o s3[2], "Standard alpha/environment analysis")>>

_score_risk_treatment(ai_output, scenario) ==
  LET s1 == IF M(ai_output, "rt_scenario_count") >= 3 THEN <<20, <<"Comprehensive scenario analysis">> >>
            ELSE IF M(ai_output, "rt_scenario_count") >= 2 THEN <<10, <<"Includes scenario analysis">> >>
            ELSE <<0, <<>> >>
      s2 == IF M(ai_output, "rt_uncertainty_count") >= 2 THEN <<15, <<"Explicit uncertainty acknowledgment">> >>
            ELSE IF M(ai_output, "rt_uncertainty_count") >= 1 THEN <<5, <<"Some uncertainty discussion">> >>
            ELSE <<0, <<>> >>
      s3 == IF M(ai_output, "rt_has_probability") > 0 THEN <<15, <<"Probability-weighted scenarios">> >>
            ELSE <<0, <<>> >>
  IN <<Clamp(50 + s1[1] + s2[1] + s3[1]),
       Feedback(s1[2] \o s2[2] \o s3[2], "Standard risk treatment")>>

_score_terminal_value(ai_output, scenario) ==
  LET s1 == IF M(ai_output, "has_terminal") > 0 THEN <<15, <<"Addresses terminal value">> >>
            ELSE <<0, <<>> >>
      s2 == IF M(ai_output, "has_gdp_anchor") > 0 THEN <<20, <<"Terminal growth anchored appropriately">> >>
            ELSE <<0, <<"Terminal growth may lack grounding">> >>
      s3 == IF M(ai_output, "has_consistency") > 0 THEN <<15, <<"Internal consistency checked">> >>
            ELSE <<0, <<>> >>
  IN <<Clamp(50 + s1[1] + s2[1] + s3[1]),
       Feedback(s1[2] \o s2[2] \o s3[2], "Standard terminal value analysis")>>

_score_cyclical_structural(ai_output, scenario) ==
  LET s1 == IF M(ai_output, "cyclical_count") >= 2 THEN <<25, <<"Strong cyclical/structural analysis">> >>
            ELSE IF M(ai_output, "cyclical_count") >= 1 THEN <<10, <<"Some cyclical awareness">> >>
            ELSE <<0, <<>> >>
      s2 == IF M(ai_output, "has_normalized") > 0 THEN <<20, <<"Uses normalized metrics">> >>
            ELSE <<0, <<>> >>
  IN <<Clamp(50 + s1[1] + s2[1]),
       Feedback(s1[2] \o s2[2], "Standard cyclical analysis")>>

_score_risk_classification(ai_output, scenario) ==
  LET s1 == IF M(ai_output, "env_idio_count") >= 2 THEN <<25, <<"Strong env/idio classification">> >>
            ELSE IF M(ai_output, "env_idio_count") >= 1 THEN <<15, <<"Some risk classification">> >>
            ELSE <<0, <<>> >>
      s2 == IF M(ai_output, "risk_type_count") >= 4 THEN <<20, <<"Comprehensive risk taxonomy">> >>
            ELSE IF M(ai_output, "risk_type_count") >= 2 THEN <<10, <<"Multiple risks identified">> >>
            ELSE <<0, <<>> >>
  IN <<Clamp(50 + s1[1] + s2[1]),
       Feedback(s1[2] \o s2[2], "Standard risk classification")>>

_score_hedging_logic(ai_output, scenario) ==
  LET s1 == IF M(ai_output, "hedge_logic_count") >= 2 THEN <<25, <<"Strong hedging logic">> >>
            ELSE IF M(ai_output, "hedge_logic_count") >= 1 THEN <<15, <<"Some hedging rationale">> >>
            ELSE <<0, <<>> >>
      s2 == IF M(ai_output, "has_instruments") > 0 THEN <<15, <<"Specific hedge instruments">> >>
            ELSE <<0, <<>> >>
      s3 == IF M(ai_output, "hl_has_residual") > 0 THEN <<10, <<"Acknowledges residual exposure">> >>
            ELSE <<0, <<>> >>
  IN <<Clamp(50 + s1[1] + s2[1] + s3[1]),
       Feedback(s1[2] \o s2[2] \o s3[2], "Standard hedging analysis")>>

_score_sizing_methodology(ai_output, scenario) ==
  LET s1 == IF M(ai_output, "risk_sizing_count") >= 2 THEN <<25, <<"Strong risk-based sizing">> >>
            ELSE IF M(ai_output, "risk_sizing_count") >= 1 THEN <<15, <<"Some risk-based sizing">> >>
            ELSE <<0, <<"May use notional sizing only">> >>
      s2 == IF M(ai_output, "has_vol_calc") > 0 THEN <<15, <<"Includes volatility calculations">> >>
            ELSE <<0, <<>> >>
      s3 == IF M(ai_output, "has_binary") > 0 THEN <<10, <<"Addresses binary event sizing">> >>
            ELSE <<0, <<>> >>
  IN <<Clamp(50 + s1[1] + s2[1] + s3[1]),
       Feedback(s1[2] \o s2[2] \o s3[2], "Standard sizing methodology")>>

_score_risk_placement(ai_output, scenario) ==
  LET s1 == IF M(ai_output, "exposure_count") >= 2 THEN <<20, <<"Discusses exposure management">> >>
            ELSE IF M(ai_output, "exposure_count") >= 1 THEN <<10, <<"Some exposure discussion">> >>
            ELSE <<0, <<>> >>
      s2 == IF M(ai_output, "has_risk_budget") > 0 THEN <<15, <<"Risk budgeting present">> >>
            ELSE <<0, <<>> >>
  IN <<Clamp(50 + s1[1] + s2[1]),
       Feedback(s1[2] \o s2[2], "Standard risk placement")>>

_score_uncertainty_judgment(ai_output, scenario) ==
  LET s1 == IF M(ai_output, "uncertainty_count") >= 3 THEN <<20, <<"Strong uncertainty acknowledgment">> >>
            ELSE IF M(ai_output, "uncertainty_count") >= 1 THEN <<10, <<"Some uncertainty discussion">> >>
            ELSE <<0, <<>> >>
      s2 == IF M(ai_output, "has_what_if") > 0 THEN <<15, <<"Includes contingency planning">> >>
            ELSE <<0, <<>> >>
  IN <<Clamp(50 + s1[1] + s2[1]),
       Feedback(s1[2] \o s2[2], "Standard uncertainty handling")>>

_score_attribution_discipline(ai_output, scenario) ==
  LET s1 == IF M(ai_output, "factor_count") >= 3 THEN <<25, <<"Strong factor decomposition">> >>
            ELSE IF M(ai_output, "factor_count") >= 1 THEN <<15, <<"Some factor analysis">> >>
            ELSE <<0, <<"Limited factor decomposition">> >>
      s2 == IF M(ai_output, "has_residual") > 0 THEN <<20, <<"Calculates residual alpha">> >>
            ELSE <<0, <<>> >>
      s3 == IF M(ai_output, "has_shown_calculation") > 0 THEN <<10, <<"Shows calculation methodology">> >>
            ELSE <<0, <<>> >>
  IN <<Clamp(50 + s1[1] + s2[1] + s3[1]),
       Feedback(s1[2] \o s2[2] \o s3[2], "Standard attribution analysis")>>

_score_hypothesis_testing(ai_output, scenario) ==
  LET s1 == IF M(ai_output, "hypothesis_count") >= 2 THEN <<25, <<"Strong hypothesis testing">> >>
            ELSE IF M(ai_output, "hypothesis_count") >= 1 THEN <<15, <<"Some hypothesis testing">> >>
            ELSE <<0, <<"Limited hypothesis testing">> >>
      s2 == IF M(ai_output, "has_skepticism") > 0 THEN <<15, <<"Shows appropriate skepticism">> >>
            ELSE <<0, <<>> >>
      s3 == IF M(ai_output, "has_evidence") > 0 THEN <<10, <<"Evidence-based conclusions">> >>
            ELSE <<0, <<>> >>
  IN <<Clamp(50 + s1[1] + s2[1] + s3[1]),
       Feedback(s1[2] \o s2[2] \o s3[2], "Standard hypothesis testing")>>

_score_contextual_evaluation(ai_output, scenario) ==
  LET s1 == IF M(ai_output, "conditional_count") >= 2 THEN <<20, <<"Evaluates skill conditionally">> >>
            ELSE IF M(ai_output, "conditional_count") >= 1 THEN <<10, <<"Some conditional evaluation">> >>
            ELSE <<0, <<>> >>
      s2 == IF M(ai_output, "has_intentionality") > 0 THEN <<20, <<"Addresses intentionality question">> >>
            ELSE <<0, <<>> >>
      s3 == IF M(ai_output, "has_neutral_skepticism") > 0 THEN <<10, <<"Questions neutral environment assumption">> >>
            ELSE <<0, <<>> >>
  IN <<Clamp(50 + s1[1] + s2[1] + s3[1]),
       Feedback(s1[2] \o s2[2] \o s3[2], "Standard contextual evaluation")>>

_score_with_llm(ai_output, scenario) ==
  <<75, <<"LLM scoring not yet implemented">> >>

(* the ids of the scorer dispatch table *)
KnownDimensions ==
  {"factual_accuracy", "analytical_rigor", "risk_assessment",
   "evidence_quality", "completeness", "alpha_environment",
   "risk_treatment", "terminal_value", "risk_classification",
   "hedging_logic", "sizing_methodology", "attribution_discipline",
   "hypothesis_testing", "contextual_evaluation", "cyclical_structural",
   "risk_placement", "uncertainty_judgment"}

DefaultScoreMutant == <<75, <<"Default score applied">> >>

(* the else branch of the dispatch *)
DefaultScore == <<70, <<"Default score applied">> >>

_score_dimension(ai_output, scenario, dimension, use_llm) ==
  LET dim_id == dimension["id"]
  IN IF use_llm THEN _score_with_llm(ai_output, scenario)
     ELSE CASE dim_id = "factual_accuracy" -> _score_factual_accuracy(ai_output, scenario)
          [] dim_id = "analytical_rigor" -> _score_analytical_rigor(ai_output, scenario)
          [] dim_id = "risk_assessment" -> _score_risk_assessment(ai_output, scenario)
          [] dim_id = "evidence_quality" -> _score_evidence_quality(ai_output, scenario)
          [] dim_id = "completeness" -> _score_completeness(ai_output, scenario)
          [] dim_id = "alpha_environment" -> _score_alpha_environment(ai_output, scenario)
          [] dim_id = "risk_treatment" -> _score_risk_treatment(ai_output, scenario)
          [] dim_id = "terminal_value" -> _score_terminal_value(ai_output, scenario)
          [] dim_id = "risk_classification" -> _score_risk_classification(ai_output, scenario)
          [] dim_id = "hedging_logic" -> _score_hedging_logic(ai_output, scenario)
          [] dim_id = "sizing_methodology" -> _score_sizing_methodology(ai_output, scenario)
          [] dim_id = "attribution_discipline" -> _score_attribution_discipline(ai_output, scenario)
          [] dim_id = "hypothesis_testing" -> _score_hypothesis_testing(ai_output, scenario)
          [] dim_id = "contextual_evaluation" -> _score_contextual_evaluation(ai_output, scenario)
          [] dim_id = "cyclical_structural" -> _score_cyclical_structural(ai_output, scenario)
          [] dim_id = "risk_placement" -> _score_risk_placement(ai_output, scenario)
          [] dim_id = "uncertainty_judgment" -> _score_uncertainty_judgment(ai_output, scenario)
          [] OTHER -> DefaultScore

(* the regex pattern groups counted by each scorer *)
PatternGroups(dim_id) ==
  CASE dim_id = "factual_accuracy" -> {"citation_count"}
    [] dim_id = "analytical_rigor" -> {"assumption_count", "structure_count"}
    [] dim_id = "risk_assessment" -> {"risk_section_match", "risk_items", "has_assessment", "has_mitigation"}
    [] dim_id = "evidence_quality" -> {"source_count", "has_calculations"}
    [] dim_id = "completeness" -> {}
    [] dim_id = "alpha_environment" -> {"separation_count", "has_quantification", "has_extrapolation_awareness"}
    [] dim_id = "risk_treatment" -> {"rt_scenario_count", "rt_uncertainty_count", "rt_has_probability"}
    [] dim_id = "terminal_value" -> {"has_terminal", "has_gdp_anchor", "has_consistency"}
    [] dim_id = "risk_classification" -> {"env_idio_count", "risk_type_count"}
    [] dim_id = "hedging_logic" -> {"hedge_logic_count", "has_instruments", "hl_has_residual"}
    [] dim_id = "sizing_methodology" -> {"risk_sizing_count", "has_vol_calc", "has_binary"}
    [] dim_id = "attribution_discipline" -> {"factor_count", "has_residual", "has_shown_calculation"}
    [] dim_id = "hypothesis_testing" -> {"hypothesis_count", "has_skepticism", "has_evidence"}
    [] dim_id = "contextual_evaluation" -> {"conditional_count", "has_intentionality", "has_neutral_skepticism"}
    [] dim_id = "cyclical_structural" -> {"cyclical_count", "has_normalized"}
    [] dim_id = "risk_placement" -> {"exposure_count", "has_risk_budget"}
    [] dim_id = "uncertainty_judgment" -> {"uncertainty_count", "has_what_if"}
    [] OTHER -> {}

(* ---------------------------------------------------------------------- *)
(* Engine: construction, grade, aggregator                                 *)
(* ---------------------------------------------------------------------- *)

(* weight 1.0, in hundredths *)
DefaultWeight == 100

DefaultPassThreshold == 70

(* total_weight > 10, in hundredths *)
PercentageCutoff == 1000

Put(m, k, v) == [x \in DOMAIN m \cup {k} |-> IF x = k THEN v ELSE m[x]]

(* GradingEngine.__init__ *)
InitDimensions(r) == Get(r, "dimensions", <<>>)

InitPassThresholdMutant(r) == Get(r, "pass_threshold", 0)

InitPassThreshold(r) == Get(r, "pass_threshold", DefaultPassThreshold)

(* the scoring loop of grade: acc is <<dimension_scores, detailed_feedback>> *)
RECURSIVE GradeLoop(_, _, _, _, _)
GradeLoop(dims, ai_output, scenario, use_llm, acc) ==
  IF dims = <<>> THEN acc
  ELSE LET dimension == Head(dims)
           dim_id == dimension["id"]
           sf == _score_dimension(ai_output, scenario, dimension, use_llm)
       IN GradeLoop(Tail(dims), ai_output, scenario, use_llm,
                    <<Put(acc[1], dim_id, sf[1]), Put(acc[2], dim_id, sf[2])>>)

(* a grade that scores no dimension once a critical failure is found *)
GradeSuppressedMutant(dims, ai_output, scenario, use_llm) ==
  LET failures == _check_critical_failures(ai_output, scenario)
      acc == GradeLoop(dims, ai_output, scenario, use_llm, <<EmptyMap, EmptyMap>>)
  IN IF failures # <<>> THEN <<EmptyMap, failures, EmptyMap>>
     ELSE <<acc[1], failures, acc[2]>>

(* grade returns <<dimension_scores, critical_failures, detailed_feedback>> *)
grade(dims, ai_output, scenario, use_llm) ==
  LET failures == _check_critical_failures(ai_output, scenario)
      acc == GradeLoop(dims, ai_output, scenario, use_llm, <<EmptyMap, EmptyMap>>)
  IN <<acc[1], failures, acc[2]>>

(* the accumulation loop of calculate_overall_score: <<total, total_weight>> *)
RECURSIVE WeightedTotalsMutant(_, _)
WeightedTotalsMutant(dims, scores) ==
  IF dims = <<>> THEN <<0, 0>>
  ELSE LET dimension == Head(dims)
           dim_id == dimension["id"]
           weight == Get(dimension, "weight", DefaultWeight)
           rest == WeightedTotalsMutant(Tail(dims), scores)
       IN <<rest[1] + Get(scores, dim_id, 0) * weight, rest[2] + weight>>

RECURSIVE WeightedTotals(_, _)
WeightedTotals(dims, scores) ==
  IF dims = <<>> THEN <<0, 0>>
  ELSE LET dimension == Head(dims)
           dim_id == dimension["id"]
           weight == Get(dimension, "weight", DefaultWeight)
           rest == WeightedTotals(Tail(dims), scores)
       IN IF dim_id \in DOMAIN scores
          THEN <<rest[1] + scores[dim_id] * weight, rest[2] + weight>>
          ELSE rest

ZeroWeightResultMutant(total, total_weight) == <<total, total_weight>>

(* if total_weight == 0: return 0.0; return total / total_weight *)
ZeroWeightResult(total, total_weight) ==
  IF total_weight = 0 THEN <<0, 1>> ELSE Frac(total, total_weight)

calculate_overall_score(dims, scores) ==
  LET t == WeightedTotals(dims, scores)
  IN ZeroWeightResult(t[1], t[2])

DeterminePassFailMutant(threshold, overall, failures) ==
  FracGeqInt(overall, threshold)

DeterminePassFailStrict(threshold, overall, failures) ==
  IF failures # <<>> THEN FALSE ELSE overall[1] > threshold * overall[2]

determine_pass_fail(threshold, overall, failures) ==
  IF failures # <<>> THEN FALSE ELSE FracGeqInt(overall, threshold)

(* The aggregator as Python evaluates it, on floats: scores are floats,   *)
(* a weight is the float of its YAML literal, and every product, sum and  *)
(* quotient is rounded.  FloatWeightedTotals(dims, scores, n) is          *)
(* << total, total_weight >> after the first n dimensions of the loop.    *)
RECURSIVE FloatWeightedTotals(_, _, _)
FloatWeightedTotals(dims, scores, n) ==
  IF n = 0 THEN <<FloatOfInt(0), FloatOfInt(0)>>
  ELSE LET prev == FloatWeightedTotals(dims, scores, n - 1)
           dimension == dims[n]
           dim_id == dimension["id"]
           weight == FloatOfHundredths(Get(dimension, "weight", DefaultWeight))
       IN IF dim_id \in DOMAIN scores
          THEN <<FloatAdd(prev[1], FloatMul(FloatOfInt(scores[dim_id]), weight)),
                 FloatAdd(prev[2], weight)>>
          ELSE prev

FloatOverallScore(dims, scores) ==
  LET t == FloatWeightedTotals(dims, scores, Len(dims))
  IN IF t[2] = FloatOfInt(0) THEN FloatOfInt(0) ELSE FloatDiv(t[1], t[2])

FloatPassFail(threshold, overall, failures) ==
  IF failures # <<>> THEN FALSE ELSE FloatGeq(overall, FloatOfInt(threshold))

(* ---------------------------------------------------------------------- *)
(* EvaluationRunner.run_evaluation                                         *)
(* ---------------------------------------------------------------------- *)

RECURSIVE RunnerWeightSum(_)
RunnerWeightSum(dims) ==
  IF dims = <<>> THEN 0
  ELSE Get(Head(dims), "weight", DefaultWeight) + RunnerWeightSum(Tail(dims))

RECURSIVE RunnerScoreSum(_, _)
RunnerScoreSum(dims, scores) ==
  IF dims = <<>> THEN 0
  ELSE Get(scores, Head(dims)["id"], 0) * Get(Head(dims), "weight", DefaultWeight)
         + RunnerScoreSum(Tail(dims), scores)

(* the weight-convention branch; weights are in hundredths, so the raw    *)
(* weighted sum is over 100 and the percentage one over 100 * 100         *)
RunnerOverallScore(r, scores) ==
  LET dims == Get(r, "dimensions", <<>>)
      total_weight == RunnerWeightSum(dims)
  IN IF total_weight > PercentageCutoff
     THEN Frac(RunnerScoreSum(dims, scores), 100 * 100)
     ELSE Frac(RunnerScoreSum(dims, scores), 100)

RunnerPassed(r, overall, failures) ==
  LET threshold == Get(r, "pass_threshold", DefaultPassThreshold)
  IN FracGeqInt(overall, threshold) /\ Len(failures) = 0

(* _default_rubric *)
DefaultRubric ==
  [dimensions |->
     << [id |-> "factual_accuracy", weight |-> 30],
        [id |-> "analytical_rigor", weight |-> 25],
        [id |-> "risk_assessment", weight |-> 20],
        [id |-> "evidence_quality", weight |-> 15],
        [id |-> "completeness", weight |-> 10] >>,
   critical_failures |-> <<>>,
   pass_threshold |-> 70]

(* ---------------------------------------------------------------------- *)
(* studio/rewards.py: RewardSignal.  The four axes and the weights are     *)
(* floats; a weight or an axis given in hundredths is the float of that    *)
(* decimal literal.                                                        *)
(* ---------------------------------------------------------------------- *)

RewardSignal(accuracy, logic, format_quality, length) ==
  [accuracy |-> accuracy, logic |-> logic, format_quality |-> format_quality,
   length |-> length]

(* alpha_acc, alpha_logic, alpha_format, alpha_length, in hundredths *)
DefaultAlphasMutant == <<40, 30, 15, 25>>

DefaultAlphas == <<40, 30, 15, 15>>

(* the length term added on its own *)
CompositeMutant(self, alpha_acc, alpha_logic, alpha_format, alpha_length) ==
  CHOOSE r \in
    {FloatAdd(s2, t4) :
       s2 \in {FloatAdd(s1, t3) :
                 s1 \in {FloatAdd(t1, t2) :
                           t1 \in {FloatMul(alpha_acc, self.accuracy)},
                           t2 \in {FloatMul(alpha_logic, self.logic)}},
                 t3 \in {FloatMul(alpha_format, self.format_quality)}},
       t4 \in {FloatMul(alpha_length, self.length)}} : TRUE

(* RewardSignal.composite: the sum is evaluated left to right, each       *)
(* product and each partial sum (t1..t4, s1, s2) rounded as it is formed   *)
composite(self, alpha_acc, alpha_logic, alpha_format, alpha_length) ==
  CHOOSE r \in
    {FloatAdd(s2, t4) :
       s2 \in {FloatAdd(s1, t3) :
                 s1 \in {FloatAdd(t1, t2) :
                           t1 \in {FloatMul(alpha_acc, self.accuracy)},
                           t2 \in {FloatMul(alpha_logic, self.logic)}},
                 t3 \in {FloatMul(alpha_format, self.format_quality)}},
       t4 \in {FloatMul(alpha_length, g) : g \in {FloatMul(self.length, self.accuracy)}}} : TRUE

(* composite() with the default weights *)
DefaultComposite(self) ==
  composite(self, FloatOfHundredths(DefaultAlphas[1]), FloatOfHundredths(DefaultAlphas[2]),
            FloatOfHundredths(DefaultAlphas[3]), FloatOfHundredths(DefaultAlphas[4]))

(* ---------------------------------------------------------------------- *)
(* studio/rewards.py: the heuristic rewards.  A text is a sequence of      *)
(* lines joined by "\n" (no blank line, so one paragraph); a line is an    *)
(* optional marker ("-" or "1.") and one or more runs << word, n >> of a    *)
(* lower-case word repeated n times, all separated by single spaces.       *)
(* "because" is one of _LOGIC_KEYWORDS, "grew." ends a sentence.           *)
(* ---------------------------------------------------------------------- *)

Line(marker, words) == [marker |-> marker, words |-> words]

RECURSIVE RunTotal(_)
RunTotal(words) ==
  IF words = <<>> THEN 0 ELSE Head(words)[2] + RunTotal(Tail(words))

RECURSIVE CountOf(_, _)
CountOf(words, w) ==
  IF words = <<>> THEN 0
  ELSE (IF Head(words)[1] = w THEN Head(words)[2] ELSE 0) + CountOf(Tail(words), w)

(* len(text.split()): the markers are words too *)
RECURSIVE WordCount(_)
WordCount(text) ==
  IF text = <<>> THEN 0
  ELSE (IF Head(text).marker = "" THEN 0 ELSE 1) + RunTotal(Head(text).words)
       + WordCount(Tail(text))

(* the number of words of the text equal to w *)
RECURSIVE WordOccurrences(_, _)
WordOccurrences(text, w) ==
  IF text = <<>> THEN 0
  ELSE CountOf(Head(text).words, w) + WordOccurrences(Tail(text), w)

(* the number of lines that begin with the marker *)
MarkedLines(text, marker) == Cardinality({i \in DOMAIN text : text[i].marker = marker})

(* set(text.lower().split()) *)
TokenSet(text) ==
  UNION {{text[i].words[j][1] : j \in DOMAIN text[i].words}
           \cup (IF text[i].marker = "" THEN {} ELSE {text[i].marker})
         : i \in DOMAIN text}

FloatMin(x, y) == IF FloatGeq(x, y) THEN y ELSE x

FloatMax(x, y) == IF FloatGeq(x, y) THEN x ELSE y

FloatRatio(a, b) == FloatDiv(FloatOfInt(a), FloatOfInt(b))

(* compute_accuracy; the reference is << >> for None and << text >> for a *)
(* string                                                                  *)
compute_accuracy(text, reference) ==
  IF reference = <<>> \/ reference[1] = <<>> THEN FloatOfHundredths(50)
  ELSE LET text_tokens == TokenSet(text)
           ref_tokens == TokenSet(reference[1])
       IN IF ref_tokens = {} THEN FloatOfHundredths(50)
          ELSE LET overlap == FloatRatio(Cardinality(text_tokens \cap ref_tokens),
                                         Cardinality(ref_tokens))
               IN FloatMin(FloatMul(overlap, FloatOfHundredths(120)), FloatOfInt(1))

(* compute_logic: each "grew." and each "1." is one run of [.!?], and the *)
(* split has one piece more than there are runs                            *)
compute_logic(text) ==
  IF WordCount(text) = 0 THEN FloatOfInt(0)
  ELSE LET keyword_hits == WordOccurrences(text, "because")
           sentences == Max(WordOccurrences(text, "grew.") + MarkedLines(text, "1.") + 1, 1)
           density == FloatRatio(keyword_hits, sentences)
           score == FloatMin(FloatDiv(density, FloatOfInt(1)), FloatOfInt(1))
           numbered_steps == MarkedLines(text, "1.")
       IN IF numbered_steps >= 2
          THEN FloatMin(FloatAdd(score, FloatOfHundredths(15)), FloatOfInt(1))
          ELSE score

(* compute_format for a text of one paragraph: consistency is 0.5 *)
compute_format(text) ==
  IF WordCount(text) = 0 THEN FloatOfInt(0)
  ELSE LET structure_hits == MarkedLines(text, "-") + MarkedLines(text, "1.")
           n_paras == 1
           structure_score ==
             FloatMin(FloatRatio(structure_hits, Max(n_paras, 3)), FloatOfInt(1))
           consistency == FloatOfHundredths(50)
       IN FloatAdd(FloatMul(FloatOfHundredths(60), structure_score),
                   FloatMul(FloatOfHundredths(40), consistency))

(* compute_length with ideal_min = 150 and ideal_max = 600 *)
(* a length reward without the 0.1 floor *)
ComputeLengthMutant(text) ==
  LET word_count == WordCount(text)
  IN IF word_count < 150
     THEN FloatRatio(word_count, 150)
     ELSE IF word_count > 600
     THEN FloatMax(FloatRatio(600, word_count), FloatOfHundredths(20))
     ELSE FloatOfInt(1)

compute_length(text) ==
  LET word_count == WordCount(text)
  IN IF word_count < 150
     THEN FloatMax(FloatRatio(word_count, 150), FloatOfHundredths(10))
     ELSE IF word_count > 600
     THEN FloatMax(FloatRatio(600, word_count), FloatOfHundredths(20))
     ELSE FloatOfInt(1)

(* the RewardSignal with its explanations *)
Explained(sig, source) ==
  [accuracy |-> sig.accuracy, logic |-> sig.logic,
   format_quality |-> sig.format_quality, length |-> sig.length,
   explanations |-> [source |-> source]]

(* rubric_scores.get(axis, 50) / 100, the scores being integers *)
RubricAxis(scores, axis) == FloatRatio(Get(scores, axis, 50), 100)

(* a compute_reward that takes any mapping, the empty one too, for scores *)
ComputeRewardMutant(text, reference, scores) ==
  IF scores # <<>>
  THEN Explained(RewardSignal(RubricAxis(scores[1], "accuracy"),
                               RubricAxis(scores[1], "logic"),
                               RubricAxis(scores[1], "format_quality"),
                               RubricAxis(scores[1], "length")), "rubric_scores")
  ELSE Explained(RewardSignal(compute_accuracy(text, reference), compute_logic(text),
                               compute_format(text), compute_length(text)), "heuristic")

(* compute_reward; rubric_scores is << >> for None and << mapping >> for a *)
(* dict, and "if rubric_scores:" is false for None and for {}              *)
compute_reward(text, reference, scores) ==
  IF scores # <<>> /\ scores[1] # EmptyMap
  THEN Explained(RewardSignal(RubricAxis(scores[1], "accuracy"),
                               RubricAxis(scores[1], "logic"),
                               RubricAxis(scores[1], "format_quality"),
                               RubricAxis(scores[1], "length")), "rubric_scores")
  ELSE Explained(RewardSignal(compute_accuracy(text, reference), compute_logic(text),
                               compute_format(text), compute_length(text)), "heuristic")

(* round(x, 4): the float nearest to the decimal of four places nearest   *)
(* to x, ties of the exact value to even                                   *)
Round4(x) ==
  LET n == BigMulSmall(x[1], 10000)
      k == x[2]
      q == BigShr(n, k)
      up == /\ k > 0
            /\ Bit(n, k - 1) = 1
            /\ (~LowBitsZero(n, k - 1) \/ Bit(q, 0) = 1)
  IN RoundRat(IF up THEN BigAdd(q, <<1>>) ELSE q, BigOfInt(10000))

(* RewardSignal.to_dict; self.composite() returns before it is rounded *)
to_dict(self) ==
  [accuracy |-> Round4(self.accuracy),
   logic |-> Round4(self.logic),
   format_quality |-> Round4(self.format_quality),
   length |-> Round4(self.length),
   composite |-> CHOOSE rounded \in {Round4(c) : c \in {DefaultComposite(self)}} : TRUE,
   explanations |-> self.explanations]

(* the mapping m with m[k] = v set *)
SetItem(m, k, v) == (k :> v) @@ m

(* compute_reward(pair[side], pair.get("prompt", ""), reference) with the   *)
(* two values the annotation takes from it: round(composite(), 4) and      *)
(* to_dict().  The reward is computed once and then used.                  *)
SideReward(p, side, refr) ==
  CHOOSE taken \in
    UNION {{[score |-> Round4(c), details |-> to_dict(reward)] :
              c \in {DefaultComposite(reward)}} :
           reward \in {compute_reward(p[side], refr, <<>>)}} : TRUE

(* an annotation that builds a fresh mapping of the fields it knows *)
AnnotatePairWithRewardsMutant(p, refr) ==
  CHOOSE annotated \in
    {[prompt |-> Get(p, "prompt", <<>>),
      chosen |-> p["chosen"],
      rejected |-> p["rejected"],
      chosen_score |-> reward["chosen"].score,
      rejected_score |-> reward["rejected"].score,
      reward_details |->
        [chosen |-> reward["chosen"].details,
         rejected |-> reward["rejected"].details,
         reward_type |-> "grpo_multifaceted"]] :
       reward \in {[side \in {"chosen", "rejected"} |-> SideReward(p, side, refr)]}} :
    TRUE

(* annotate_pair_with_rewards: the pair after the three assignments;      *)
(* reward["chosen"] is taken from chosen_reward, reward["rejected"] from   *)
(* rejected_reward                                                         *)
annotate_pair_with_rewards(p, refr) ==
  CHOOSE annotated \in
    {SetItem(SetItem(SetItem(p, "chosen_score", reward["chosen"].score),
                     "rejected_score", reward["rejected"].score),
             "reward_details",
             [chosen |-> reward["chosen"].details,
              rejected |-> reward["rejected"].details,
              reward_type |-> "grpo_multifaceted"]) :
       reward \in {[side \in {"chosen", "rejected"} |-> SideReward(p, side, refr)]}} :
    TRUE

(* ---------------------------------------------------------------------- *)
(* studio/ranker.py                                                        *)
(* ---------------------------------------------------------------------- *)

(* neighbouring positions only *)
RECURSIVE CombinationsMutant(_, _, _)
CombinationsMutant(i, j, k) ==
  IF i >= k - 1 THEN <<>>
  ELSE <<(<<i, i + 1>>)>> \o CombinationsMutant(i + 1, i + 2, k)

(* itertools.combinations(range(k), 2) from << i, j >> on, in its order *)
RECURSIVE Combinations(_, _, _)
Combinations(i, j, k) ==
  IF i >= k - 1 THEN <<>>
  ELSE IF j >= k THEN Combinations(i + 1, i + 2, k)
  ELSE <<(<<i, j>>)>> \o Combinations(i, j + 1, k)

(* GenerationConfig.to_dict, label, model and temperature (in hundredths) *)
ConfigDict(config) ==
  [label |-> config.label, model |-> config.model, temperature |-> config.temperature]

(* extract_pairwise_preferences; session_id is << >> for None and << id >> *)
(* for a string, uuid is what uuid.uuid4() gives, stamps[n] is what        *)
(* datetime.now() gives for the n-th pair                                  *)
extract_pairwise_preferences(labels, outs, configs_by_label, prompt, source, tags, session_id, uuid, stamps) ==
  LET sid == IF session_id = <<>> \/ session_id[1] = "" THEN uuid ELSE session_id[1]
      total_k == Len(labels)
      positions == Combinations(0, 1, total_k)
  IN [n \in DOMAIN positions |->
        LET i == positions[n][1]
            j == positions[n][2]
            chosen_label == labels[i + 1]
            rejected_label == labels[j + 1]
        IN [timestamp |-> stamps[n],
            prompt |-> prompt,
            chosen |-> outs[chosen_label],
            rejected |-> outs[rejected_label],
            tags |-> tags,
            source |-> source,
            mode |-> "ranking",
            ranking_metadata |->
              [session_id |-> sid,
               total_k |-> total_k,
               chosen_rank |-> i + 1,
               rejected_rank |-> j + 1,
               rank_margin |-> j - i,
               chosen_config |-> ConfigDict(configs_by_label[chosen_label]),
               rejected_config |-> ConfigDict(configs_by_label[rejected_label]),
               full_ranking |-> labels]]]

count_pairs(k) == (k * (k - 1)) \div 2

(* ---------------------------------------------------------------------- *)
(* contractor_platform/workflows/task_manager.py.  A task is its status,   *)
(* assigned_to ("None" when unassigned) and min_tier (the index in         *)
(* tier_order); tasks of the model require no expertise.  A list of tasks  *)
(* is a mapping from task id.                                              *)
(* ---------------------------------------------------------------------- *)

OpenTask(min_tier) == [status |-> "open", assigned_to |-> "None", min_tier |-> min_tier]

(* Task.is_claimable *)
is_claimable(t) == t.status = "open"

(* Task.claim: the task after a successful claim *)
claim(t, user_id) == [t EXCEPT !.status = "claimed", !.assigned_to = user_id]

(* users.json, never written by claim_task: user id -> tier index *)
UsersJson == [u \in {"u1", "u2", "u3"} |-> IF u = "u3" THEN 0 ELSE 2]

(* what claim_task answers from the task and the user it has read, before *)
(* it claims: "" when every check passes.  task is << >> for None.         *)
ClaimRefusal(t, user_id) ==
  IF t = <<>> THEN "Task not found"
  ELSE IF user_id \notin DOMAIN UsersJson THEN "User not found"
  ELSE IF ~is_claimable(t[1]) THEN "Task is not available"
  ELSE IF UsersJson[user_id] < t[1].min_tier THEN "Requires tier or higher"
  ELSE ""

(* a comprehension that keeps the loaded task *)
ReplacedMutant(loaded, task_id, t) ==
  [id \in DOMAIN loaded |-> loaded[id]]

(* [t if t.id != task_id else task for t in tasks] *)
Replaced(loaded, task_id, t) ==
  [id \in DOMAIN loaded |-> IF id # task_id THEN loaded[id] ELSE t]

(* ---------------------------------------------------------------------- *)
(* contractor_platform, one call after another.  The data directory is a   *)
(* record of the lists kept in tasks.json, submissions.json, payments.json *)
(* and users.json; the uuid of a task, submission or payment is its        *)
(* position in its list (nothing is ever removed from a list).  Amounts    *)
(* are in hundredths of a dollar; messages are the fixed part of the       *)
(* f-string.                                                               *)
(* ---------------------------------------------------------------------- *)

(* tasks created and submissions made in a run *)
MaxTasks == 2

MaxSubmissions == 3

(* Task.max_revisions: int = 2 *)
DefaultMaxRevisions == 2

(* PaymentProcessor.MIN_PAYOUT_AMOUNT = 25.0 *)
MIN_PAYOUT_AMOUNT == 2500

TaskTypes == {"adversarial_test", "training_task"}

(* TaskType.base_payment *)
base_payment(task_type) == IF task_type = "adversarial_test" THEN 5000 ELSE 1500

(* TaskType.min_tier_required, as the index in tier_order *)
min_tier_required(task_type) == IF task_type = "adversarial_test" THEN 1 ELSE 0

(* UserTier.rate_multiplier in hundredths, by the index in tier_order *)
rate_multiplier(tier) == <<50, 100, 125, 150, 100>>[tier + 1]

(* UserTier.can_review: SENIOR, EXPERT, ADMIN *)
can_review(tier) == tier \in {2, 3, 4}

(* Task(task_type=..., status=TaskStatus.OPEN) after __post_init__ *)
NewTask(task_type) ==
  [status |-> "open", assigned_to |-> "None",
   min_tier |-> min_tier_required(task_type),
   base_payment |-> base_payment(task_type),
   review_score |-> <<>>, revision_count |-> 0,
   max_revisions |-> DefaultMaxRevisions]

(* Task.can_revise, read by Task.request_revision only, which no workflow *)
(* calls                                                                   *)
can_revise(t) == t.revision_count < t.max_revisions

(* users.json of the sequential runs: the tiers of UsersJson, no history *)
NewUser(tier) ==
  [tier |-> tier, is_active |-> TRUE, total_submissions |-> 0,
   approved_submissions |-> 0, rejected_submissions |-> 0,
   total_reviews |-> 0, total_earnings |-> 0]

(* the data directory after TaskManager(data_dir), ReviewWorkflow(data_dir) *)
(* and PaymentProcessor(data_dir) with the users registered                 *)
NewDataDir ==
  [tasks |-> <<>>, submissions |-> <<>>, payments |-> <<>>,
   users |-> [u \in DOMAIN UsersJson |-> NewUser(UsersJson[u])]]

(* what a call gives: its return value and the data directory it leaves *)
Outcome(r, d) == [ret |-> r, data |-> d]

(* get_task / get_submission / next(p for p in payments if p.id == ...) *)
Found(list, id) == IF id \in DOMAIN list THEN <<list[id]>> ELSE <<>>

(* TaskManager.create_task *)
create_task(d, task_type) ==
  Outcome(Len(d.tasks) + 1, [d EXCEPT !.tasks = Append(@, NewTask(task_type))])

(* a claim_task that claims whatever the status *)
ClaimTaskMutant(d, task_id, user_id) ==
  LET t == Found(d.tasks, task_id)
  IN IF t = <<>> THEN Outcome(<<FALSE, "Task not found">>, d)
     ELSE IF user_id \notin DOMAIN d.users THEN Outcome(<<FALSE, "User not found">>, d)
     ELSE IF d.users[user_id].tier < t[1].min_tier
          THEN Outcome(<<FALSE, "Requires tier or higher">>, d)
     ELSE Outcome(<<TRUE, "Task claimed successfully">>,
                  [d EXCEPT !.tasks = Replaced(@, task_id, claim(t[1], user_id))])

(* TaskManager.claim_task *)
claim_task(d, task_id, user_id) ==
  LET refusal == ClaimRefusal(Found(d.tasks, task_id), user_id)
  IN IF refusal # "" THEN Outcome(<<FALSE, refusal>>, d)
     ELSE Outcome(<<TRUE, "Task claimed successfully">>,
                  [d EXCEPT !.tasks = Replaced(@, task_id, claim(d.tasks[task_id], user_id))])

(* TaskManager.start_task with Task.start *)
start_task(d, task_id, user_id) ==
  LET t == Found(d.tasks, task_id)
  IN IF t = <<>> THEN Outcome(<<FALSE, "Task not found">>, d)
     ELSE IF t[1].assigned_to # user_id
          THEN Outcome(<<FALSE, "Task is not assigned to you">>, d)
     ELSE IF t[1].status # "claimed"
          THEN Outcome(<<FALSE, "Cannot start task in status:", t[1].status>>, d)
     ELSE Outcome(<<TRUE, "Task started">>,
                  [d EXCEPT !.tasks = Replaced(@, task_id, [t[1] EXCEPT !.status = "in_progress"])])

(* TaskManager.submit_task with Task.submit *)
submit_task(d, task_id, user_id) ==
  LET t == Found(d.tasks, task_id)
  IN IF t = <<>> THEN Outcome(<<FALSE, "Task not found">>, d)
     ELSE IF t[1].assigned_to # user_id
          THEN Outcome(<<FALSE, "Task is not assigned to you">>, d)
     ELSE IF t[1].status \notin {"in_progress", "revision"}
          THEN Outcome(<<FALSE, "Cannot submit task in status:", t[1].status>>, d)
     ELSE Outcome(<<TRUE, "Task submitted for review">>,
                  [d EXCEPT !.tasks = Replaced(@, task_id, [t[1] EXCEPT !.status = "submitted"])])

(* TaskManager.release_task with Task.release *)
release_task(d, task_id, user_id, is_admin) ==
  LET t == Found(d.tasks, task_id)
  IN IF t = <<>> THEN Outcome(<<FALSE, "Task not found">>, d)
     ELSE IF t[1].assigned_to # user_id /\ ~is_admin
          THEN Outcome(<<FALSE, "Task is not assigned to you">>, d)
     ELSE IF t[1].status \notin {"claimed", "in_progress"}
          THEN Outcome(<<FALSE, "Cannot release task in status:", t[1].status>>, d)
     ELSE Outcome(<<TRUE, "Task released">>,
                  [d EXCEPT !.tasks = Replaced(@, task_id,
                     [t[1] EXCEPT !.status = "open", !.assigned_to = "None"])])

(* Submission(task_id=..., contributor_id=..., status=DRAFT) *)
NewSubmission(task_id, contributor_id) ==
  [task_id |-> task_id, contributor_id |-> contributor_id, status |-> "draft",
   current_reviewer_id |-> "None", reviews |-> <<>>, final_score |-> <<>>]

(* ReviewWorkflow.create_submission: no check of the task or contributor *)
create_submission(d, task_id, contributor_id) ==
  Outcome(Len(d.submissions) + 1,
          [d EXCEPT !.submissions = Append(@, NewSubmission(task_id, contributor_id))])

(* ReviewWorkflow.submit_for_review with Submission.submit *)
submit_for_review(d, submission_id) ==
  LET s == Found(d.submissions, submission_id)
  IN IF s = <<>> THEN Outcome(<<FALSE, "Submission not found">>, d)
     ELSE IF s[1].status \notin {"draft", "revised"}
          THEN Outcome(<<FALSE, "Cannot submit from status:", s[1].status>>, d)
     ELSE Outcome(<<TRUE, "Submitted for review">>,
                  [d EXCEPT !.submissions =
                     Replaced(@, submission_id, [s[1] EXCEPT !.status = "submitted"])])

(* ReviewWorkflow.assign_reviewer with Submission.assign_reviewer *)
assign_reviewer(d, submission_id, reviewer_id) ==
  LET s == Found(d.submissions, submission_id)
  IN IF s = <<>> THEN Outcome(<<FALSE, "Submission not found">>, d)
     ELSE IF reviewer_id \notin DOMAIN d.users THEN Outcome(<<FALSE, "Reviewer not found">>, d)
     ELSE IF ~can_review(d.users[reviewer_id].tier)
          THEN Outcome(<<FALSE, "User tier cannot review submissions">>, d)
     ELSE IF s[1].contributor_id = reviewer_id
          THEN Outcome(<<FALSE, "Cannot review your own submission">>, d)
     ELSE IF s[1].status # "submitted"
          THEN Outcome(<<FALSE, "Cannot assign reviewer in status:", s[1].status>>, d)
     ELSE Outcome(<<TRUE, "Reviewer assigned", reviewer_id>>,
                  [d EXCEPT !.submissions =
                     Replaced(@, submission_id,
                       [s[1] EXCEPT !.status = "in_review",
                                    !.current_reviewer_id = reviewer_id])])

(* order of users.json *)
UserOrder == <<"u1", "u2", "u3">>

(* len(self.get_submissions_for_reviewer(user.id)) *)
current_assignments(d, user_id) ==
  Cardinality({n \in DOMAIN d.submissions : d.submissions[n].current_reviewer_id = user_id})

(* tier_rank.get(tier, 0): EXPERT 3, SENIOR 2, ADMIN 1 *)
tier_rank(tier) == IF tier = 3 THEN 3 ELSE IF tier = 2 THEN 2 ELSE IF tier = 4 THEN 1 ELSE 0

(* the eligible reviewers of auto_assign_reviewer, as positions in         *)
(* users.json                                                              *)
Eligible(d, s) ==
  {n \in DOMAIN UserOrder :
     /\ can_review(d.users[UserOrder[n]].tier)
     /\ UserOrder[n] # s.contributor_id
     /\ d.users[UserOrder[n]].is_active}

(* eligible.sort(key=(workload, -tier_rank)) is stable: eligible[0] is the *)
(* first user in file order among those of the least key                   *)
Selected(d, s) ==
  CHOOSE n \in Eligible(d, s) :
    \A m \in Eligible(d, s) :
      LET kn == <<current_assignments(d, UserOrder[n]), -tier_rank(d.users[UserOrder[n]].tier)>>
          km == <<current_assignments(d, UserOrder[m]), -tier_rank(d.users[UserOrder[m]].tier)>>
      IN \/ kn[1] < km[1]
         \/ kn[1] = km[1] /\ kn[2] < km[2]
         \/ kn = km /\ n <= m

(* ReviewWorkflow.auto_assign_reviewer *)
auto_assign_reviewer(d, submission_id) ==
  LET s == Found(d.submissions, submission_id)
  IN IF s = <<>> THEN Outcome(<<FALSE, "Submission not found">>, d)
     ELSE IF Eligible(d, s[1]) = {}
          THEN Outcome(<<FALSE, "No eligible reviewers available">>, d)
     ELSE assign_reviewer(d, submission_id, UserOrder[Selected(d, s[1])])

(* ReviewWorkflow.start_review: a Review with the default overall_score    *)
(* 0.0; nothing is read and nothing is stored                              *)
start_review(submission_id, reviewer_id) ==
  [submission_id |-> submission_id, reviewer_id |-> reviewer_id, overall_score |-> 0]

(* ReviewWorkflow._update_task_status: the status is assigned whatever the *)
(* task's status is; a score that is not None is stored                    *)
_update_task_status(d, task_id, status, score) ==
  IF task_id \notin DOMAIN d.tasks THEN d
  ELSE [d EXCEPT !.tasks[task_id].status = status,
                 !.tasks[task_id].review_score = IF score = <<>> THEN @ ELSE score]

(* ReviewWorkflow._update_contributor_stats with User.update_stats on a    *)
(* score of 0.0, which leaves average_quality_score at 0.0                 *)
_update_contributor_stats(d, contributor_id, approved) ==
  IF contributor_id \notin DOMAIN d.users THEN d
  ELSE [d EXCEPT !.users[contributor_id].total_submissions = @ + 1,
                 !.users[contributor_id].approved_submissions = IF approved THEN @ + 1 ELSE @,
                 !.users[contributor_id].rejected_submissions = IF approved THEN @ ELSE @ + 1]

(* ReviewWorkflow._update_reviewer_stats *)
_update_reviewer_stats(d, reviewer_id) ==
  IF reviewer_id \notin DOMAIN d.users THEN d
  ELSE [d EXCEPT !.users[reviewer_id].total_reviews = @ + 1]

(* the submission of complete_review after add_review and the decision *)
Decided(s, review, action) ==
  [s EXCEPT !.reviews = Append(@, review),
            !.status = CASE action = "approve" -> "approved"
                         [] action = "revise" -> "revision_requested"
                         [] OTHER -> "rejected",
            !.final_score = IF action = "approve" THEN <<review.overall_score>> ELSE @]

(* the data directory after the task and contributor updates of a decision *)
Applied(d, s, review, action) ==
  CASE action = "approve" ->
         _update_contributor_stats(
           _update_task_status(d, s.task_id, "approved", <<review.overall_score>>),
           s.contributor_id, TRUE)
    [] action = "revise" -> _update_task_status(d, s.task_id, "revision", <<>>)
    [] OTHER ->
         _update_contributor_stats(
           _update_task_status(d, s.task_id, "rejected", <<>>),
           s.contributor_id, FALSE)

(* ReviewWorkflow.complete_review.  Submission.request_revision returns    *)
(* False only when the status is not IN_REVIEW, which the second check has *)
(* excluded, so its refusal is never taken.                                *)
complete_review(d, submission_id, review, action) ==
  LET s == Found(d.submissions, submission_id)
  IN IF s = <<>> THEN Outcome(<<FALSE, "Submission not found">>, d)
     ELSE IF s[1].status # "in_review"
          THEN Outcome(<<FALSE, "Submission is not in review", s[1].status>>, d)
     ELSE IF action = "revise" /\ s[1].status # "in_review"
          THEN Outcome(<<FALSE, "Maximum revisions exceeded">>, d)
     ELSE IF action \notin {"approve", "revise", "reject"}
          THEN Outcome(<<FALSE, "Invalid action:", action>>, d)
     ELSE Outcome(<<TRUE, "Review completed:", action>>,
                  _update_reviewer_stats(
                    [Applied(d, s[1], review, action) EXCEPT !.submissions =
                       Replaced(@, submission_id,
                         Decided(s[1], [review EXCEPT !.submission_id = submission_id], action))],
                    review.reviewer_id))

(* PaymentProcessor.calculate_task_payment for a task of MEDIUM priority   *)
(* without bonus and with a review score below 90: base * multiplier, a    *)
(* product that is exact in binary64 for the bases and multipliers here    *)
calculate_task_payment(t, user) == (t.base_payment * rate_multiplier(user.tier)) \div 100

(* PaymentProcessor.get_approved_unpaid_tasks, as positions in tasks.json *)
get_approved_unpaid_tasks(d, user_id) ==
  {n \in DOMAIN d.tasks : d.tasks[n].assigned_to = user_id /\ d.tasks[n].status = "approved"}

(* the gross amount after add_line_item for the tasks at the positions ids *)
RECURSIVE gross_amount(_, _, _)
gross_amount(d, user, ids) ==
  IF ids = {} THEN 0
  ELSE LET n == CHOOSE m \in ids : \A k \in ids : m <= k
       IN calculate_task_payment(d.tasks[n], user) + gross_amount(d, user, ids \ {n})

(* PaymentProcessor.create_payment; task_ids is {} for None or an empty    *)
(* list.  User has no attribute tax_form_collected (it is a field of       *)
(* Payment), so the tax-form check raises AttributeError before the        *)
(* payment is appended: the call gives << "raise", "AttributeError" >>.    *)
create_payment(d, user_id, task_ids) ==
  LET tasks_to_pay == IF task_ids # {} THEN DOMAIN d.tasks \cap task_ids
                      ELSE get_approved_unpaid_tasks(d, user_id)
      refused == {n \in tasks_to_pay :
                    d.tasks[n].assigned_to # user_id \/ d.tasks[n].status # "approved"}
      first == CHOOSE n \in refused : \A m \in refused : n <= m
  IN IF user_id \notin DOMAIN d.users THEN Outcome(<<"None", "User not found">>, d)
     ELSE IF tasks_to_pay = {} THEN Outcome(<<"None", "No approved tasks to pay">>, d)
     ELSE IF refused # {}
          THEN Outcome(<<"None", IF d.tasks[first].assigned_to # user_id
                                 THEN "Task is not assigned to this user"
                                 ELSE "Task is not approved", first>>, d)
     ELSE IF gross_amount(d, d.users[user_id], tasks_to_pay) < MIN_PAYOUT_AMOUNT
          THEN Outcome(<<"None", "Minimum payout is">>, d)
     ELSE Outcome(<<"raise", "AttributeError">>, d)

(* PaymentProcessor.process_payment with Payment.process *)
process_payment(d, payment_id) ==
  LET p == Found(d.payments, payment_id)
  IN IF p = <<>> THEN Outcome(<<FALSE, "Payment not found">>, d)
     ELSE IF p[1].status # "pending"
          THEN Outcome(<<FALSE, "Cannot process payment in status:", p[1].status>>, d)
     ELSE Outcome(<<TRUE, "Payment is processing">>,
                  [d EXCEPT !.payments[payment_id].status = "processing"])

(* PaymentProcessor._mark_tasks_paid *)
_mark_tasks_paid(d, task_ids) ==
  [d EXCEPT !.tasks = [n \in DOMAIN @ |->
                         IF n \in task_ids THEN [@[n] EXCEPT !.status = "paid"] ELSE @[n]]]

(* PaymentProcessor._update_user_earnings *)
_update_user_earnings(d, user_id, amount) ==
  IF user_id \notin DOMAIN d.users THEN d
  ELSE [d EXCEPT !.users[user_id].total_earnings = @ + amount]

(* PaymentProcessor.complete_payment with Payment.complete *)
complete_payment(d, payment_id) ==
  LET p == Found(d.payments, payment_id)
  IN IF p = <<>> THEN Outcome(<<FALSE, "Payment not found">>, d)
     ELSE IF p[1].status # "processing"
          THEN Outcome(<<FALSE, "Cannot complete payment in status:", p[1].status>>, d)
     ELSE Outcome(<<TRUE, "Payment completed">>,
                  _update_user_earnings(
                    _mark_tasks_paid([d EXCEPT !.payments[payment_id].status = "completed"],
                                     p[1].task_ids),
                    p[1].user_id, p[1].net_amount))

(* PaymentProcessor.fail_payment with Payment.fail *)
fail_payment(d, payment_id) ==
  LET p == Found(d.payments, payment_id)
  IN IF p = <<>> THEN Outcome(<<FALSE, "Payment not found">>, d)
     ELSE IF p[1].status \notin {"pending", "processing"}
          THEN Outcome(<<FALSE, "Cannot fail payment in status:", p[1].status>>, d)
     ELSE Outcome(<<TRUE, "Payment marked as failed">>,
                  [d EXCEPT !.payments[payment_id].status = "failed"])

(* ---------------------------------------------------------------------- *)
(* State                                                                   *)
(* ---------------------------------------------------------------------- *)

VARIABLES
  rubric,             \* GradingEngine.rubric
  dimensions,         \* GradingEngine.dimensions
  pass_threshold,     \* GradingEngine.pass_threshold
  op,                 \* the operation performed last
  ai_output,          \* its arguments ...
  scenario,
  use_llm,
  dimension,
  dimension_scores,   \* ... and what it produced (or was given)
  critical_failures,
  detailed_feedback,
  overall_score,
  passed,
  ret,                \* return value of a helper called on its own
  graded,             \* the grade call kept by the caller, if any: <<call>>
  signal,             \* studio/rewards.py: the RewardSignal (self)
  output_text,        \* compute_reward arguments
  reference,
  rubric_scores,
  pair,               \* the preference pair given to annotate_pair_with_rewards
  outputs,            \* studio/ranker.py: label -> output text
  ranked_labels,      \* the ranking, best first
  tasks_json,         \* contractor platform: the content of tasks.json
  request,            \* request -> the (task_id, user_id) of its claim_task
  pc,                 \* request -> where its claim_task stands
  task,               \* request -> local variable task of claim_task
  tasks,              \* request -> local variable tasks of claim_task
  result,             \* request -> what its claim_task returned
  data_dir,           \* the data directory of the sequential platform runs
  arguments           \* the arguments of the platform call performed last

vars ==
  <<rubric, dimensions, pass_threshold, op, ai_output, scenario, use_llm,
    dimension, dimension_scores, critical_failures, detailed_feedback,
    overall_score, passed, ret, graded, signal, output_text, reference,
    rubric_scores, pair, outputs, ranked_labels, tasks_json, request, pc,
    task, tasks, result, data_dir, arguments>>

engine == <<rubric, dimensions, pass_threshold>>

(* the arguments of a call into the studio package *)
studio == <<signal, output_text, reference, rubric_scores, pair, outputs, ranked_labels>>

(* the contractor platform: the tasks file and the requests in progress *)
platform == <<tasks_json, request, pc, task, tasks, result, data_dir, arguments>>

None == "None"

(* the part of the state that describes the last call *)
Call(o, ai, sc, llm, dim, scores, failures, feedback, overall, verdict, r) ==
  /\ op' = o
  /\ ai_output' = ai
  /\ scenario' = sc
  /\ use_llm' = llm
  /\ dimension' = dim
  /\ dimension_scores' = scores
  /\ critical_failures' = failures
  /\ detailed_feedback' = feedback
  /\ overall_score' = overall
  /\ passed' = verdict
  /\ ret' = r
  /\ signal' = None /\ output_text' = None /\ reference' = None
  /\ rubric_scores' = None /\ pair' = None /\ outputs' = None
  /\ ranked_labels' = None
  /\ UNCHANGED <<graded, platform>>

(* GradingEngine(rubric) *)
NewEngine(r) ==
  /\ rubric' = r
  /\ dimensions' = InitDimensions(r)
  /\ pass_threshold' = InitPassThreshold(r)

(* ---------------------------------------------------------------------- *)
(* Operations.  The engine is synchronous: a call starts when no call is   *)
(* in progress, and Return hands control back to the caller.               *)
(* ---------------------------------------------------------------------- *)

(* a grade that consumes the engine's dimension list while scoring *)
GradeMutant(ai, sc, llm) ==
  LET g == grade(dimensions, ai, sc, llm)
  IN /\ op = "idle"
     /\ Call("grade", ai, sc, llm, None, g[1], g[2], g[3], None, None, None)
     /\ dimensions' = IF dimensions = <<>> THEN <<>> ELSE Tail(dimensions)
     /\ UNCHANGED <<rubric, pass_threshold>>

Grade(ai, sc, llm) ==
  LET g == grade(dimensions, ai, sc, llm)
  IN /\ op = "idle"
     /\ Call("grade", ai, sc, llm, None, g[1], g[2], g[3], None, None, None)
     /\ UNCHANGED engine

ScoreDimension(ai, sc, dim, llm) ==
  /\ op = "idle"
  /\ Call("_score_dimension", ai, sc, llm, dim, None, None, None, None, None,
          _score_dimension(ai, sc, dim, llm))
  /\ UNCHANGED engine

CheckCriticalFailures(ai, sc) ==
  /\ op = "idle"
  /\ Call("_check_critical_failures", ai, sc, None, None, None,
          _check_critical_failures(ai, sc), None, None, None, None)
  /\ UNCHANGED engine

HasRiskSection(ai) ==
  /\ op = "idle"
  /\ Call("_has_risk_section", ai, None, None, None, None, None, None, None, None,
          _has_risk_section(ai.text))
  /\ UNCHANGED engine

HasGuaranteeLanguage(ai) ==
  /\ op = "idle"
  /\ Call("_has_guarantee_language", ai, None, None, None, None, None, None, None,
          None, _has_guarantee_language(ai.text))
  /\ UNCHANGED engine

DetectHallucination(ai, sc) ==
  /\ op = "idle"
  /\ Call("_detect_hallucination", ai, sc, None, None, None, None, None, None,
          None, _detect_hallucination(ai.text, sc))
  /\ UNCHANGED engine

CalculateOverallScore(scores) ==
  /\ op = "idle"
  /\ Call("calculate_overall_score", None, None, None, None, scores, None, None,
          calculate_overall_score(dimensions, scores), None, None)
  /\ UNCHANGED engine

DeterminePassFail(overall, failures) ==
  /\ op = "idle"
  /\ Call("determine_pass_fail", None, None, None, None, None, failures, None,
          overall, determine_pass_fail(pass_threshold, overall, failures), None)
  /\ UNCHANGED engine

(* calculate_overall_score on floats *)
CalculateOverallScoreFloat(scores) ==
  /\ op = "idle"
  /\ Call("calculate_overall_score", None, None, None, None, scores, None, None,
          FloatOverallScore(dimensions, scores), None, None)
  /\ UNCHANGED engine

(* main() from the grading result on: the overall score of the dimension  *)
(* scores and the verdict, with no critical failure, on floats            *)
MainVerdictFloat(scores) ==
  LET dims == InitDimensions(rubric)
      overall == FloatOverallScore(dims, scores)
      verdict == FloatPassFail(InitPassThreshold(rubric), overall, <<>>)
  IN /\ op = "idle"
     /\ Call("main", None, None, None, None, scores, <<>>, None,
             overall, verdict, None)
     /\ UNCHANGED engine

(* main(): the grade command of the CLI, on the loaded rubric *)
Main(ai, sc, llm) ==
  LET dims == InitDimensions(rubric)
      g == grade(dims, ai, sc, llm)
      overall == calculate_overall_score(dims, g[1])
      verdict == determine_pass_fail(InitPassThreshold(rubric), overall, g[2])
  IN /\ op = "idle"
     /\ NewEngine(rubric)
     /\ Call("main", ai, sc, llm, None, g[1], g[2], g[3], overall, verdict, None)

(* EvaluationRunner.run_evaluation, from "Run grading" on, on the loaded  *)
(* rubric                                                                  *)
RunEvaluation(ai, sc) ==
  LET g == grade(InitDimensions(rubric), ai, sc, FALSE)
      overall == RunnerOverallScore(rubric, g[1])
      verdict == RunnerPassed(rubric, overall, g[2])
  IN /\ op = "idle"
     /\ NewEngine(rubric)
     /\ Call("run_evaluation", ai, sc, FALSE, None, g[1], g[2], g[3], overall,
             verdict, None)

Return ==
  /\ op # "idle"
  /\ Call("idle", None, None, None, None, None, None, None, None, None, None)
  /\ UNCHANGED engine

(* a call into the studio package and what it returned *)
StudioCall(o, sig, text, refr, scores, p, outs, labels, r) ==
  /\ op' = o
  /\ signal' = sig
  /\ output_text' = text
  /\ reference' = refr
  /\ rubric_scores' = scores
  /\ pair' = p
  /\ outputs' = outs
  /\ ranked_labels' = labels
  /\ ret' = r
  /\ ai_output' = None /\ scenario' = None /\ use_llm' = None
  /\ dimension' = None /\ dimension_scores' = None
  /\ critical_failures' = None /\ detailed_feedback' = None
  /\ overall_score' = None /\ passed' = None
  /\ UNCHANGED <<engine, graded, platform>>

(* RewardSignal(...).composite() *)
Composite(sig) ==
  /\ op = "idle"
  /\ StudioCall("composite", sig, None, None, None, None, None, None,
                DefaultComposite(sig))

(* compute_reward(output_text, prompt, reference, rubric_scores); the      *)
(* prompt is not read                                                      *)
(* compute_length(text) with the default window *)
ComputeLength(text) ==
  /\ op = "idle"
  /\ StudioCall("compute_length", None, text, None, None, None, None, None,
                compute_length(text))

ComputeReward(text, refr, scores) ==
  /\ op = "idle"
  /\ StudioCall("compute_reward", None, text, refr, scores, None, None, None,
                compute_reward(text, refr, scores))

(* extract_pairwise_preferences on the configurations, prompt, source and *)
(* tags of the session                                                     *)
ExtractPairwisePreferences(labels, outs, session_id, uuid, stamps) ==
  /\ op = "idle"
  /\ StudioCall("extract_pairwise_preferences", None, None, None, None, None,
                outs, labels,
                extract_pairwise_preferences(labels, outs,
                  [l \in DOMAIN outs |->
                     [label |-> l, model |-> "claude-sonnet-4-20250514",
                      temperature |-> 70]],
                  <<Line("", <<(<<"revenue", 1>>)>>)>>, "studio_ranking", <<"test">>,
                  session_id, uuid, stamps))

(* annotate_pair_with_rewards(pair, reference) on the pair the caller     *)
(* holds: the pair is changed in place and returned                        *)
AnnotatePairWithRewards(refr) ==
  /\ op = "idle"
  /\ \E annotated \in {annotate_pair_with_rewards(pair, refr)} :
       StudioCall("annotate_pair_with_rewards", None, None, refr, None,
                  annotated, None, None, annotated)

(* the annotation returns to the caller, who still holds the pair *)
ReturnPair ==
  /\ op = "annotate_pair_with_rewards"
  /\ StudioCall("idle", None, None, None, None, pair, None, None, None)

(* ---------------------------------------------------------------------- *)
(* TaskManager.claim_task, one step per access to tasks.json.  The file    *)
(* is its parsed content, whether it parses (whole), the requests that     *)
(* have it open for writing, those whose write overlapped another's, and   *)
(* the request that wrote last.  Nothing serialises the requests.          *)
(* ---------------------------------------------------------------------- *)

Elsewhere ==
  <<engine, op, ai_output, scenario, use_llm, dimension, dimension_scores,
    critical_failures, detailed_feedback, overall_score, passed, ret, graded,
    studio, data_dir, arguments>>

(* json.load raises on a file that is being written or was garbled *)
Raise(r) ==
  /\ pc' = [pc EXCEPT ![r] = "done"]
  /\ result' = [result EXCEPT ![r] = "JSONDecodeError"]

(* task = self.get_task(task_id): _load_tasks and the search *)
GetTask(r) ==
  /\ pc[r] = "get_task"
  /\ IF tasks_json.whole
     THEN /\ task' = [task EXCEPT ![r] =
                        IF request[r].task_id \in DOMAIN tasks_json.tasks
                        THEN <<tasks_json.tasks[request[r].task_id]>> ELSE <<>>]
          /\ pc' = [pc EXCEPT ![r] = "check"]
          /\ UNCHANGED result
     ELSE Raise(r) /\ UNCHANGED task
  /\ UNCHANGED <<tasks_json, request, tasks, Elsewhere>>

(* user = self.get_user(user_id), the four checks and task.claim(user_id) *)
CheckAndClaim(r) ==
  LET refusal == ClaimRefusal(task[r], request[r].user_id)
  IN /\ pc[r] = "check"
     /\ IF refusal # ""
        THEN /\ pc' = [pc EXCEPT ![r] = "done"]
             /\ result' = [result EXCEPT ![r] = refusal]
             /\ UNCHANGED task
        ELSE /\ task' = [task EXCEPT ![r] = <<claim(task[r][1], request[r].user_id)>>]
             /\ pc' = [pc EXCEPT ![r] = "load"]
             /\ UNCHANGED result
     /\ UNCHANGED <<tasks_json, request, tasks, Elsewhere>>

(* tasks = self._load_tasks() and the comprehension that puts the claimed *)
(* task in its place                                                       *)
LoadTasks(r) ==
  /\ pc[r] = "load"
  /\ IF tasks_json.whole
     THEN /\ tasks' = [tasks EXCEPT ![r] =
                         <<Replaced(tasks_json.tasks, request[r].task_id, task[r][1])>>]
          /\ pc' = [pc EXCEPT ![r] = "save"]
          /\ UNCHANGED result
     ELSE Raise(r) /\ UNCHANGED tasks
  /\ UNCHANGED <<tasks_json, request, task, Elsewhere>>

(* _save_tasks: open(self.tasks_file, "w") truncates the file *)
OpenForWriting(r) ==
  /\ pc[r] = "save"
  /\ tasks_json' =
       [tasks_json EXCEPT
          !.whole = FALSE,
          !.tasks = EmptyMap,
          !.open = @ \cup {r},
          !.overlapped = IF tasks_json.open = {} THEN @ ELSE @ \cup tasks_json.open \cup {r}]
  /\ pc' = [pc EXCEPT ![r] = "dump"]
  /\ UNCHANGED <<request, task, tasks, result, Elsewhere>>

(* _save_tasks: json.dump of the local list and close, then return        *)
(* True.  Where two writes overlapped the bytes of one may follow those of *)
(* the other.                                                              *)
Dump(r, garbled) ==
  /\ pc[r] = "dump"
  /\ garbled => r \in tasks_json.overlapped
  /\ tasks_json' =
       [tasks |-> IF garbled THEN EmptyMap ELSE tasks[r][1],
        whole |-> ~garbled,
        open |-> tasks_json.open \ {r},
        overlapped |-> tasks_json.overlapped \ {r},
        last |-> <<r>>]
  /\ pc' = [pc EXCEPT ![r] = "done"]
  /\ result' = [result EXCEPT ![r] = "claimed successfully"]
  /\ UNCHANGED <<request, task, tasks, Elsewhere>>

(* a call of the sequential platform: its arguments, what it returned and *)
(* the data directory it left                                              *)
PlatformCall(o, args, out) ==
  /\ op' = o
  /\ arguments' = args
  /\ ret' = out.ret
  /\ data_dir' = out.data
  /\ ai_output' = None /\ scenario' = None /\ use_llm' = None
  /\ dimension' = None /\ dimension_scores' = None
  /\ critical_failures' = None /\ detailed_feedback' = None
  /\ overall_score' = None /\ passed' = None
  /\ UNCHANGED <<engine, graded, studio, tasks_json, request, pc, task, tasks, result>>

CreateTask(task_type) ==
  /\ Len(data_dir.tasks) < MaxTasks
  /\ \E out \in {create_task(data_dir, task_type)} :
       PlatformCall("create_task", <<task_type>>, out)

ClaimTask(task_id, user_id) ==
  \E out \in {claim_task(data_dir, task_id, user_id)} :
    PlatformCall("claim_task", <<task_id, user_id>>, out)

StartTask(task_id, user_id) ==
  \E out \in {start_task(data_dir, task_id, user_id)} :
    PlatformCall("start_task", <<task_id, user_id>>, out)

SubmitTask(task_id, user_id) ==
  \E out \in {submit_task(data_dir, task_id, user_id)} :
    PlatformCall("submit_task", <<task_id, user_id>>, out)

ReleaseTask(task_id, user_id, is_admin) ==
  \E out \in {release_task(data_dir, task_id, user_id, is_admin)} :
    PlatformCall("release_task", <<task_id, user_id, is_admin>>, out)

CreateSubmission(task_id, contributor_id) ==
  /\ Len(data_dir.submissions) < MaxSubmissions
  /\ \E out \in {create_submission(data_dir, task_id, contributor_id)} :
       PlatformCall("create_submission", <<task_id, contributor_id>>, out)

SubmitForReview(submission_id) ==
  \E out \in {submit_for_review(data_dir, submission_id)} :
    PlatformCall("submit_for_review", <<submission_id>>, out)

AssignReviewer(submission_id, reviewer_id) ==
  \E out \in {assign_reviewer(data_dir, submission_id, reviewer_id)} :
    PlatformCall("assign_reviewer", <<submission_id, reviewer_id>>, out)

AutoAssignReviewer(submission_id) ==
  \E out \in {auto_assign_reviewer(data_dir, submission_id)} :
    PlatformCall("auto_assign_reviewer", <<submission_id>>, out)

StartReview(submission_id, reviewer_id) ==
  \E out \in {Outcome(start_review(submission_id, reviewer_id), data_dir)} :
    PlatformCall("start_review", <<submission_id, reviewer_id>>, out)

(* complete_review on the review that start_review gave the reviewer *)
CompleteReview(submission_id, reviewer_id, action) ==
  \E review \in {start_review(submission_id, reviewer_id)} :
    \E out \in {complete_review(data_dir, submission_id, review, action)} :
      PlatformCall("complete_review", <<submission_id, review, action>>, out)

CreatePayment(user_id, task_ids) ==
  \E out \in {create_payment(data_dir, user_id, task_ids)} :
    PlatformCall("create_payment", <<user_id, task_ids>>, out)

ProcessPayment(payment_id) ==
  \E out \in {process_payment(data_dir, payment_id)} :
    PlatformCall("process_payment", <<payment_id>>, out)

CompletePayment(payment_id) ==
  \E out \in {complete_payment(data_dir, payment_id)} :
    PlatformCall("complete_payment", <<payment_id>>, out)

FailPayment(payment_id) ==
  \E out \in {fail_payment(data_dir, payment_id)} :
    PlatformCall("fail_payment", <<payment_id>>, out)

(* grade returns to a caller that keeps the engine's attributes, the call's *)
(* arguments and the returned tuple to compare later calls with            *)
ReturnKept ==
  /\ op = "grade"
  /\ graded' = <<[engine |-> engine,
                  arguments |-> <<ai_output, scenario, use_llm>>,
                  returned |-> <<dimension_scores, critical_failures,
                                 detailed_feedback>>]>>
  /\ op' = "idle"
  /\ ai_output' = None /\ scenario' = None /\ use_llm' = None
  /\ dimension' = None /\ dimension_scores' = None
  /\ critical_failures' = None /\ detailed_feedback' = None
  /\ overall_score' = None /\ passed' = None /\ ret' = None
  /\ UNCHANGED <<engine, studio, platform>>

(* ---------------------------------------------------------------------- *)
(* Bounds and the inputs drawn within them                                 *)
(* ---------------------------------------------------------------------- *)

MaxDims == 2

MaxCount == 5

MaxBody == 52

MaxFigures == 11

Seg(t, n) == <<t, n>>

SeqsUpTo(S, n) == UNION {[1..k -> S] : k \in 0..n}

FiveKeywords ==
  <<Seg("thesis", 1), Seg(" ", 1), Seg("valuation", 1), Seg(" ", 1),
    Seg("risk", 1), Seg(" ", 1), Seg("catalyst", 1), Seg(" ", 1),
    Seg("position", 1)>>

FourKeywords ==
  <<Seg("thesis", 1), Seg(" ", 1), Seg("valuation", 1), Seg(" ", 1),
    Seg("risk", 1), Seg(" ", 1), Seg("catalyst", 1)>>

GuaranteeExample ==
  <<Seg("Buy this stock,", 1), Seg(" ", 1), Seg("guaranteed", 1), Seg(" ", 1),
    Seg("returns.", 1)>>

OnlyRisksHeader == <<Seg("## Risks", 1)>>

Section(h, lead, body) == <<Seg(h, 1), Seg(" ", lead), Seg("x", body)>>

Headers == {"## Risks", "Risk Assessment", "downside"}

LeadLens == {0, 1, 160}

BodyLens == {0} \cup ((MaxBody - 3)..MaxBody)

RiskTexts ==
  {pre \o Section(h, l, b) \o suf :
     pre \in {<<>>, <<Seg("x", 3), Seg(" ", 1)>>},
     h \in Headers, l \in LeadLens, b \in BodyLens,
     suf \in {<<>>, <<Seg(" ", 2), Seg("## Risks", 1)>>}}
  \cup {<<>>, <<Seg("x", MaxBody)>>, OnlyRisksHeader, GuaranteeExample, FiveKeywords}

FigureTexts ==
  {pre \o <<Seg("$5M", n), Seg(" ", 1), Seg("$7M", m)>> \o suf :
     pre \in {<<>>, <<Seg("$5", 1), Seg(" ", 1)>>},
     n \in {0, 1, 5}, m \in {0, 5, 6, MaxFigures},
     suf \in {<<>>, <<Seg(" ", 1), Seg("position", 1)>>,
              <<Seg(" ", 1), Seg("risk-free", 1)>>,
              <<Seg(" ", 1), Seg("attribution", 1)>>,
              <<Seg(" ", 1), Seg("hedging framework", 1)>>,
              <<Seg(" ", 1), Seg("terminal value", 1)>>,
              <<Seg(" ", 1), Seg("valuation", 1)>>}}

PipelineTexts ==
  {pre \o sect \o suf :
     pre \in {<<>>, FiveKeywords, FourKeywords,
              FiveKeywords \o <<Seg(" ", 1), Seg("upside", 1)>>},
     sect \in {<<>>, <<Seg(" ", 1)>> \o Section("## Risks", 1, MaxBody - 2),
               <<Seg(" ", 1)>> \o Section("## Risks", 1, MaxBody - 1)},
     suf \in {<<>>, <<Seg(" ", 1)>> \o GuaranteeExample,
              <<Seg(" ", 1), Seg("$7M", 6), Seg(" ", 1), Seg("probability", 1)>>}}
  \cup {GuaranteeExample}

AllGroups == UNION {PatternGroups(d) : d \in KnownDimensions}

NoMatches == EmptyMap

FullMatches == [g \in AllGroups |-> MaxCount]

Sub(text, matches) == [text |-> text, matches |-> matches]

RevenueFact ==
  [fact |-> <<Seg("revenue", 1), Seg(" ", 1), Seg("$5M", 1)>>,
   importance |-> "critical"]

Scenarios ==
  {EmptyMap,
   [key_facts |-> <<RevenueFact>>],
   [evaluation_criteria |-> EmptyMap],
   [key_facts |-> <<RevenueFact, [fact |-> <<Seg("$7M", 1)>>]>>,
    evaluation_criteria |->
      [critical_failures |->
         <<"No probability estimate provided", "Ignores binary nature of outcome",
           "Fails to cite sources">>]]}

UnknownDimensions == {"custom_dimension", "Completeness"}

ScorerTexts ==
  {<<>>, <<Seg("upside", 1), Seg(" ", 1), Seg("downside", 1), Seg(" ", 1),
           Seg("revenue", 1)>>}

(* a pattern group read through any() matches or does not; one that is    *)
(* counted has up to MaxCount matches                                      *)
GroupValues(g) ==
  IF g \in
    {"has_assessment", "has_binary", "has_calculations",
     "has_consistency", "has_evidence", "has_extrapolation_awareness",
     "has_gdp_anchor", "has_instruments", "has_intentionality",
     "has_mitigation", "has_neutral_skepticism", "has_normalized",
     "has_quantification", "has_residual", "has_risk_budget",
     "has_shown_calculation", "has_skepticism", "has_terminal",
     "has_vol_calc", "has_what_if", "hl_has_residual",
     "risk_section_match", "rt_has_probability"}
  THEN 0..1 ELSE 0..MaxCount

ScorerInputs ==
  UNION {{<<Sub(t, m), [id |-> d]>> :
            t \in ScorerTexts,
            m \in {f \in [PatternGroups(d) -> 0..MaxCount] :
                     \A g \in PatternGroups(d) : f[g] \in GroupValues(g)}}
         : d \in KnownDimensions \cup UnknownDimensions}
  \cup {<<Sub(t, NoMatches), [id |-> "completeness", weight |-> 100]>> :
          t \in PipelineTexts}

(* rubrics of the aggregator: weights in hundredths *)
AggIds == {"completeness", "custom_dimension"}

AggWeights == {0, 25, 50, 75, 2500, 5000, 7500}

AggDimensions ==
  {[id |-> i, weight |-> w] : i \in AggIds, w \in AggWeights}
  \cup {[id |-> i] : i \in AggIds}

AggRubrics ==
  {[dimensions |-> d] : d \in SeqsUpTo(AggDimensions, MaxDims)}
  \cup {[dimensions |-> d, pass_threshold |-> 85] : d \in SeqsUpTo(AggDimensions, MaxDims)}
  \cup {EmptyMap, [pass_threshold |-> 85]}

AggScoreValues == {40, 100}

AggScores ==
  UNION {[ids -> AggScoreValues] : ids \in SUBSET AggIds}

OverallScores ==
  {Frac(n, 1) : n \in {0, 69, 70, 71, 84, 85, 100}} \cup {Frac(699, 10), Frac(1701, 20)}

FailureLists ==
  {<<>>, <<"Contains forward-looking guarantees">>,
   <<"Potential hallucinated data detected",
     "Missing or inadequate risk assessment section">>}

CompletenessRubric ==
  [dimensions |-> <<[id |-> "completeness", weight |-> 10000]>>,
   pass_threshold |-> 70]

PipelineRubrics ==
  {CompletenessRubric, DefaultRubric, EmptyMap,
   [dimensions |-> <<[id |-> "completeness", weight |-> 100]>>],
   [dimensions |-> <<[id |-> "custom_dimension"], [id |-> "completeness", weight |-> 50]>>,
    pass_threshold |-> 85]}

PipelineSubmissions ==
  {Sub(t, m) : t \in PipelineTexts, m \in {NoMatches, FullMatches}}

(* ---------------------------------------------------------------------- *)
(* Specifications                                                          *)
(* ---------------------------------------------------------------------- *)

(* GradingEngine(rubric) for a rubric of R, no call in progress *)
InitEngine(R) ==
  /\ rubric \in R
  /\ dimensions = InitDimensions(rubric)
  /\ pass_threshold = InitPassThreshold(rubric)
  /\ op = "idle"
  /\ ai_output = None /\ scenario = None /\ use_llm = None /\ dimension = None
  /\ dimension_scores = None /\ critical_failures = None
  /\ detailed_feedback = None /\ overall_score = None /\ passed = None
  /\ ret = None
  /\ graded = <<>>

(* no preference pair in hand *)
NoStudio ==
  /\ signal = None /\ output_text = None /\ reference = None
  /\ rubric_scores = None /\ pair = None /\ outputs = None
  /\ ranked_labels = None

(* no task manager *)
NoPlatform ==
  /\ tasks_json = None /\ request = None /\ pc = None /\ task = None
  /\ tasks = None /\ result = None /\ data_dir = None /\ arguments = None

InitWith(R) == InitEngine(R) /\ NoStudio /\ NoPlatform

(* the grading pipeline: engines graded through grade, the CLI and the    *)
(* evaluation runner                                                       *)
Init == InitWith(PipelineRubrics)

Next ==
  \/ /\ op = "idle"
     /\ \E ai \in PipelineSubmissions, sc \in Scenarios, llm \in BOOLEAN :
          Grade(ai, sc, llm)
  \/ /\ op = "idle"
     /\ \E ai \in PipelineSubmissions, sc \in Scenarios, llm \in BOOLEAN :
          Main(ai, sc, llm)
  \/ /\ op = "idle"
     /\ \E ai \in PipelineSubmissions, sc \in Scenarios : RunEvaluation(ai, sc)
  \/ Return

Spec == Init /\ [][Next]_vars

(* the dimension scorer and the critical-failure checks called on their   *)
(* own                                                                     *)
InitScorer == InitWith({DefaultRubric})

ScorerScenarios == {EmptyMap, [key_facts |-> <<RevenueFact>>]}

NextScorer ==
  \/ /\ op = "idle"
     /\ \E in \in ScorerInputs, sc \in ScorerScenarios, llm \in BOOLEAN :
          ScoreDimension(in[1], sc, in[2], llm)
  \/ /\ op = "idle"
     /\ \E t \in RiskTexts : HasRiskSection(Sub(t, NoMatches))
  \/ /\ op = "idle"
     /\ \E t \in RiskTexts \cup FigureTexts : HasGuaranteeLanguage(Sub(t, NoMatches))
  \/ /\ op = "idle"
     /\ \E t \in FigureTexts, sc \in Scenarios :
          DetectHallucination(Sub(t, NoMatches), sc)
  \/ /\ op = "idle"
     /\ \E t \in RiskTexts \cup FigureTexts, sc \in Scenarios :
          CheckCriticalFailures(Sub(t, NoMatches), sc)
  \/ Return

SpecScorer == InitScorer /\ [][NextScorer]_vars

(* the aggregator over rubrics of every weight convention *)
InitAggregator == InitWith(AggRubrics)

NextAggregator ==
  \/ /\ op = "idle"
     /\ \E scores \in AggScores : CalculateOverallScore(scores)
  \/ /\ op = "idle"
     /\ \E overall \in OverallScores, failures \in FailureLists :
          DeterminePassFail(overall, failures)
  \/ /\ op = "idle"
     /\ \E t \in {FiveKeywords, GuaranteeExample} :
          RunEvaluation(Sub(t, NoMatches), EmptyMap)
  \/ Return

SpecAggregator == InitAggregator /\ [][NextAggregator]_vars

(* the aggregator on floats: rubrics of two dimensions whose weights are  *)
(* fractions summing to 1 or the same weights as percentages              *)
FloatWeightPairs == {<<50, 50>>, <<25, 75>>, <<30, 70>>, <<10, 90>>, <<40, 60>>}

FloatRubrics ==
  {[dimensions |-> <<[id |-> "completeness", weight |-> k * w[1]],
                     [id |-> "custom_dimension", weight |-> k * w[2]]>>,
    pass_threshold |-> 70] : w \in FloatWeightPairs, k \in {1, 100}}

FloatScoreValues == {0, 3, 7, 70, 85, 97, 100}

FloatScores == [AggIds -> FloatScoreValues]

InitFloat == InitWith(FloatRubrics)

NextFloat ==
  \/ /\ op = "idle"
     /\ \E scores \in FloatScores : CalculateOverallScoreFloat(scores)
  \/ /\ op = "idle"
     /\ \E scores \in FloatScores : MainVerdictFloat(scores)
  \/ Return

SpecFloat == InitFloat /\ [][NextFloat]_vars

(* one engine graded again and again by a caller that keeps earlier       *)
(* results                                                                 *)
StatelessSubmissions ==
  {Sub(FiveKeywords, NoMatches), Sub(GuaranteeExample, NoMatches),
   Sub(GuaranteeExample, FullMatches)}

InitStateless == InitWith(PipelineRubrics)

NextStateless ==
  \/ /\ op = "idle"
     /\ \E ai \in StatelessSubmissions, sc \in Scenarios, llm \in BOOLEAN :
          Grade(ai, sc, llm)
  \/ ReturnKept

SpecStateless == InitStateless /\ [][NextStateless]_vars

(* the composite reward of signals whose axes are hundredths in [0, 1]    *)
AxisValues == {0, 50, 99, 100}

Signals ==
  {RewardSignal(FloatOfHundredths(a), FloatOfHundredths(l), FloatOfHundredths(f),
                FloatOfHundredths(n)) : a, l, f, n \in AxisValues}

InitComposite == InitWith({DefaultRubric})

NextComposite ==
  \/ /\ op = "idle"
     /\ \E sig \in Signals : Composite(sig)
  \/ Return

SpecComposite == InitComposite /\ [][NextComposite]_vars

(* compute_reward on texts of every length class, with and without a     *)
(* reference and rubric scores                                             *)
StudioTexts ==
  {<<>>,
   <<Line("", <<(<<"revenue", 1>>)>>)>>,
   <<Line("", <<(<<"because", 1>>), (<<"revenue", 148>>), (<<"grew.", 1>>)>>)>>,
   <<Line("1.", <<(<<"because", 2>>)>>), Line("1.", <<(<<"revenue", 1>>)>>),
     Line("-", <<(<<"grew.", 1>>)>>)>>,
   <<Line("-", <<(<<"revenue", 300>>)>>), Line("-", <<(<<"because", 400>>)>>)>>}

References == {<<>>, <<(<<>>)>>} \cup {<<t>> : t \in StudioTexts \ {<<>>}}

RubricScoreValues == {0, 85, 100}

RubricScoreMaps ==
  {EmptyMap, [accuracy |-> 0], [length |-> 85]}
  \cup {[accuracy |-> a, logic |-> 85, format_quality |-> 100, length |-> n] :
          a, n \in RubricScoreValues}

OptionalRubricScores == {<<>>} \cup {<<m>> : m \in RubricScoreMaps}

InitReward == InitWith({DefaultRubric})

NextReward ==
  \/ /\ op = "idle"
     /\ \E text \in StudioTexts, refr \in References, scores \in OptionalRubricScores :
          ComputeReward(text, refr, scores)
  \/ Return

SpecReward == InitReward /\ [][NextReward]_vars

(* compute_length on texts of n words, n around each breakpoint of the    *)
(* reward (0, 15, 150, 600, 3000), as one line or as a bulleted line       *)
LengthCounts == (0..20) \cup (140..160) \cup (590..610) \cup (2990..3010)

TextOfLength(n, bulleted) ==
  IF n = 0 THEN <<>>
  ELSE IF bulleted /\ n >= 2 THEN <<Line("-", <<(<<"revenue", n - 1>>)>>)>>
  ELSE <<Line("", <<(<<"revenue", n>>)>>)>>

InitLength == InitWith({DefaultRubric})

NextLength ==
  \/ /\ op = "idle"
     /\ \E n \in LengthCounts, bulleted \in BOOLEAN :
          ComputeLength(TextOfLength(n, bulleted))
  \/ Return

SpecLength == InitLength /\ [][NextLength]_vars

(* rankings of up to MaxRanked of the session's labelled outputs          *)
MaxRanked == 4

Labels == {"A", "B", "C", "D", "E"}

Rankings ==
  UNION {{r \in [1..k -> Labels] : \A a, b \in 1..k : a # b => r[a] # r[b]}
         : k \in 0..MaxRanked}

OutputsByLabel ==
  {[l \in Labels |->
      CASE l = "A" -> <<Line("", <<(<<"revenue", 1>>)>>)>>
        [] l = "B" -> <<Line("", <<(<<"because", 1>>), (<<"revenue", 148>>),
                                   (<<"grew.", 1>>)>>)>>
        [] l = "C" -> <<Line("-", <<(<<"revenue", 300>>)>>),
                        Line("-", <<(<<"because", 400>>)>>)>>
        [] l = "D" -> <<>>
        [] OTHER -> <<Line("1.", <<(<<"because", 2>>)>>),
                      Line("1.", <<(<<"revenue", 1>>)>>),
                      Line("-", <<(<<"grew.", 1>>)>>)>>]}

(* the clock read once per pair: it never goes back *)
Clock == {1, 2}

Stamps(n) ==
  {t \in [1..n -> Clock] : \A a, b \in 1..n : a <= b => t[a] <= t[b]}

InitRanker == InitWith({DefaultRubric})

NextRanker ==
  \/ /\ op = "idle"
     /\ \E labels \in Rankings, outs \in OutputsByLabel,
           session_id \in {<<>>, <<"session-1">>}, uuid \in {"uuid-1", "uuid-2"} :
          \E stamps \in Stamps(count_pairs(Len(labels))) :
            ExtractPairwisePreferences(labels, outs, session_id, uuid, stamps)
  \/ Return

SpecRanker == InitRanker /\ [][NextRanker]_vars

(* annotation of the pairs of two extracted rankings and of pairs that    *)
(* have nothing but the two texts                                          *)
AnnotatedRankings == {<<"A", "B", "E", "C">>, <<"D", "B">>, <<"C", "A", "D">>}

ExtractedPairs ==
  UNION {LET pairs == extract_pairwise_preferences(labels, outs,
                        [l \in DOMAIN outs |->
                           [label |-> l, model |-> "claude-sonnet-4-20250514",
                            temperature |-> 70]],
                        <<Line("", <<(<<"revenue", 1>>)>>)>>, "studio_ranking",
                        <<"test">>, <<"session-1">>, "uuid-1",
                        [n \in 1..count_pairs(Len(labels)) |-> 1])
         IN {pairs[n] : n \in DOMAIN pairs}
         : labels \in AnnotatedRankings, outs \in OutputsByLabel}

BarePairs ==
  {[chosen |-> outs["B"], rejected |-> outs["A"]] : outs \in OutputsByLabel}

InitAnnotate ==
  /\ InitEngine({DefaultRubric})
  /\ signal = None /\ output_text = None /\ reference = None
  /\ rubric_scores = None /\ outputs = None /\ ranked_labels = None
  /\ pair \in ExtractedPairs \cup BarePairs
  /\ NoPlatform

NextAnnotate ==
  \/ /\ op = "idle"
     /\ \E refr \in References : AnnotatePairWithRewards(refr)
  \/ ReturnPair

SpecAnnotate == InitAnnotate /\ [][NextAnnotate]_vars

(* two concurrent claim_task requests on a tasks.json of two tasks        *)
Requests == {"r1", "r2"}

TaskIds == {"TASK-1", "TASK-2"}

InitialTasks ==
  {[id \in TaskIds |-> IF id = "TASK-1" THEN OpenTask(1) ELSE t] :
     t \in {OpenTask(1), claim(OpenTask(1), "u0")}}

ClaimArguments ==
  {[task_id |-> t, user_id |-> u] :
     t \in TaskIds \cup {"TASK-9"}, u \in DOMAIN UsersJson \cup {"u9"}}

InitTasks ==
  /\ InitEngine({DefaultRubric})
  /\ NoStudio
  /\ \E initial \in InitialTasks :
       tasks_json = [tasks |-> initial, whole |-> TRUE, open |-> {},
                     overlapped |-> {}, last |-> <<>>]
  /\ request \in {q \in [Requests -> ClaimArguments] :
                     q["r1"].user_id = "u1" /\ q["r2"].user_id # "u1"}
  /\ pc = [r \in Requests |-> "get_task"]
  /\ task = [r \in Requests |-> <<>>]
  /\ tasks = [r \in Requests |-> <<>>]
  /\ result = [r \in Requests |-> "pending"]
  /\ data_dir = None /\ arguments = None

NextTasks ==
  \/ \E r \in Requests : GetTask(r)
  \/ \E r \in Requests : CheckAndClaim(r)
  \/ \E r \in Requests : LoadTasks(r)
  \/ \E r \in Requests : OpenForWriting(r)
  \/ \E r \in Requests, garbled \in BOOLEAN : Dump(r, garbled)

SpecTasks == InitTasks /\ [][NextTasks]_vars

(* TaskManager calls one after another on a data directory that starts    *)
(* without tasks                                                           *)
InitPlatform(D) ==
  /\ InitEngine({DefaultRubric})
  /\ NoStudio
  /\ tasks_json = None /\ request = None /\ pc = None /\ task = None
  /\ tasks = None /\ result = None
  /\ data_dir \in D
  /\ arguments = None

PlatformUsers == DOMAIN UsersJson \cup {"u9"}

(* u1 is SENIOR, u3 a TRAINEE, u9 is not registered; u2 releases as admin *)
TaskManagerUsers == {"u1", "u3", "u9"}

ReleaseArguments ==
  {<<user_id, FALSE>> : user_id \in TaskManagerUsers} \cup {<<"u2", TRUE>>}

InitTaskManager == InitPlatform({NewDataDir})

NextTaskManager ==
  \/ \E task_type \in TaskTypes : CreateTask(task_type)
  \/ \E task_id \in 1..(MaxTasks + 1), user_id \in TaskManagerUsers : ClaimTask(task_id, user_id)
  \/ \E task_id \in 1..(MaxTasks + 1), user_id \in TaskManagerUsers : StartTask(task_id, user_id)
  \/ \E task_id \in 1..(MaxTasks + 1), user_id \in TaskManagerUsers : SubmitTask(task_id, user_id)
  \/ \E task_id \in 1..(MaxTasks + 1), a \in ReleaseArguments : ReleaseTask(task_id, a[1], a[2])

SpecTaskManager == InitTaskManager /\ [][NextTaskManager]_vars

(* the data directory after a task of the type was created on d, claimed  *)
(* and started by the user, and after it was submitted as well             *)
Started(d, task_type, user_id) ==
  LET created == create_task(d, task_type)
      claimed == claim_task(created.data, created.ret, user_id)
  IN start_task(claimed.data, created.ret, user_id).data

Submitted(d, task_type, user_id) ==
  submit_task(Started(d, task_type, user_id), Len(d.tasks) + 1, user_id).data

(* ... and after a submission for it was made, reviewed and approved *)
Approved(d, task_type, user_id, reviewer_id) ==
  LET made == create_submission(Submitted(d, task_type, user_id), Len(d.tasks) + 1, user_id)
      sent == submit_for_review(made.data, made.ret)
      assigned == assign_reviewer(sent.data, made.ret, reviewer_id)
  IN complete_review(assigned.data, made.ret, start_review(made.ret, reviewer_id),
                     "approve").data

(* ReviewWorkflow calls, and the contributor's submit_task, one after      *)
(* another on a data directory with one task of u1 that is open, claimed,  *)
(* started or submitted.  u1 and u2 are SENIOR, u3 is a TRAINEE.           *)
ReviewActions == {"approve", "revise", "reject", "escalate"}

ReviewDirs ==
  {create_task(NewDataDir, "adversarial_test").data,
   claim_task(create_task(NewDataDir, "adversarial_test").data, 1, "u1").data,
   Started(NewDataDir, "adversarial_test", "u1"),
   Submitted(NewDataDir, "adversarial_test", "u1")}

InitReview == InitPlatform(ReviewDirs)

(* the reviews completed: by u2 with every action, by the contributor u1  *)
(* with a revision request                                                 *)
Decisions ==
  {<<"u2", action>> : action \in ReviewActions} \cup {<<"u1", "revise">>}

NextReview ==
  \/ SubmitTask(1, "u1")
  \/ CreateSubmission(1, "u1")
  \/ \E submission_id \in 1..MaxSubmissions : SubmitForReview(submission_id)
  \/ \E submission_id \in 1..MaxSubmissions, reviewer_id \in PlatformUsers :
       AssignReviewer(submission_id, reviewer_id)
  \/ \E submission_id \in 1..MaxSubmissions : AutoAssignReviewer(submission_id)
  \/ \E reviewer_id \in {"u1", "u2"} : StartReview(1, reviewer_id)
  \/ \E submission_id \in 1..MaxSubmissions, decision \in Decisions :
       CompleteReview(submission_id, decision[1], decision[2])

SpecReview == InitReview /\ [][NextReview]_vars

(* PaymentProcessor calls one after another on a data directory with an    *)
(* approved task and a second task that is approved, submitted or started  *)
PaymentDirs ==
  {Approved(Approved(NewDataDir, "adversarial_test", "u1", "u2"), "training_task", "u3", "u2"),
   Approved(Approved(NewDataDir, "adversarial_test", "u1", "u2"), "adversarial_test", "u1", "u2"),
   Submitted(Approved(NewDataDir, "adversarial_test", "u1", "u2"), "training_task", "u3"),
   Approved(Started(NewDataDir, "adversarial_test", "u2"), "adversarial_test", "u1", "u2")}

InitPayments == InitPlatform(PaymentDirs)

NextPayments ==
  \/ \E user_id \in PlatformUsers, task_ids \in SUBSET (1..(MaxTasks + 1)) :
       CreatePayment(user_id, task_ids)
  \/ \E payment_id \in 1..MaxTasks : ProcessPayment(payment_id)
  \/ \E payment_id \in 1..MaxTasks : CompletePayment(payment_id)
  \/ \E payment_id \in 1..MaxTasks : FailPayment(payment_id)

SpecPayments == InitPayments /\ [][NextPayments]_vars

(* ---------------------------------------------------------------------- *)
(* Properties                                                              *)
(* ---------------------------------------------------------------------- *)

(* the sum of the values of a function with a finite domain *)
RECURSIVE SumFn(_)
SumFn(f) ==
  IF DOMAIN f = {} THEN 0
  ELSE LET x == CHOOSE y \in DOMAIN f : TRUE
       IN f[x] + SumFn([y \in DOMAIN f \ {x} |-> f[y]])

WeightOf(dim) == IF "weight" \in DOMAIN dim THEN dim.weight ELSE 100

(* C1: whenever the list of critical failures is non-empty the verdict is  *)
(* False, whatever the overall score (100 included) and the pass threshold *)
C1_CriticalFailureVeto ==
  (op \in {"determine_pass_fail", "main", "run_evaluation"}
     /\ Len(critical_failures) > 0)
    => passed = FALSE

C1_Witness ==
  /\ op = "determine_pass_fail"
  /\ Len(critical_failures) = 1
  /\ overall_score = <<100, 1>>
  /\ passed = FALSE

(* C2: calculate_overall_score is the weighted average, sum of score times *)
(* weight over sum of weight, taken over exactly the rubric dimensions     *)
(* whose id is a key of dimension_scores; the others are in neither sum    *)
C2_WeightedAverageOverScored ==
  op = "calculate_overall_score" =>
    LET scored == {i \in DOMAIN dimensions :
                     dimensions[i].id \in DOMAIN dimension_scores}
        num == SumFn([i \in scored |->
                        dimension_scores[dimensions[i].id] * WeightOf(dimensions[i])])
        den == SumFn([i \in scored |-> WeightOf(dimensions[i])])
    IN den # 0 => overall_score = Frac(num, den)

C2_Witness ==
  /\ op = "calculate_overall_score"
  /\ Len(dimensions) = 2
  /\ dimensions[1].id \notin DOMAIN dimension_scores
  /\ WeightOf(dimensions[1]) > 0
  /\ dimensions[2].id \in DOMAIN dimension_scores
  /\ WeightOf(dimensions[2]) > 0
  /\ dimension_scores[dimensions[2].id] = 100
  /\ FracEq(overall_score, <<100, 1>>)

(* fractional weights that sum to 1, and the same weights times 100 *)
FractionalWeights(dims) ==
  /\ dims # <<>>
  /\ SumFn([i \in DOMAIN dims |-> WeightOf(dims[i])]) = 100

AsPercentages(dims) ==
  [i \in DOMAIN dims |-> [id |-> dims[i].id, weight |-> 100 * WeightOf(dims[i])]]

(* C3: for the same dimension scores, a rubric with fractional weights     *)
(* summing to 1 and the rubric with those weights times 100 get the same   *)
(* overall score from calculate_overall_score, as Python computes it       *)
C3_WeightConventionEquivalence ==
  (op \in {"calculate_overall_score", "main"} /\ FractionalWeights(dimensions)) =>
    overall_score = FloatOverallScore(AsPercentages(dimensions), dimension_scores)

(* C4: every score returned by _score_dimension lies in [0, 100] *)
C4_ScoreWithinRange ==
  op = "_score_dimension" => (ret[1] >= 0 /\ ret[1] <= 100)

C4_Witness ==
  /\ op = "_score_dimension"
  /\ dimension.id = "attribution_discipline"
  /\ use_llm = FALSE
  /\ M(ai_output, "factor_count") >= 3
  /\ M(ai_output, "has_residual") > 0
  /\ M(ai_output, "has_shown_calculation") > 0
  /\ ret[1] = 100

(* C5 as stated: a dimension whose id is not in the dispatch table always  *)
(* scores (70.0, "Default score applied"), for every grading option        *)
C5_UnknownAlwaysDefault ==
  (op = "_score_dimension" /\ dimension.id \notin KnownDimensions)
    => ret = <<70, <<"Default score applied">> >>

(* C5 amended: without use_llm an unknown id scores (70.0, "Default score  *)
(* applied"); with use_llm it scores what the LLM placeholder returns      *)
C5_UnknownDefaultUnlessLlm ==
  (op = "_score_dimension" /\ dimension.id \notin KnownDimensions)
    => ret = IF use_llm THEN <<75, <<"LLM scoring not yet implemented">> >>
             ELSE <<70, <<"Default score applied">> >>

C5_Witness ==
  /\ op = "_score_dimension"
  /\ dimension.id = "custom_dimension"
  /\ use_llm = FALSE
  /\ ret = <<70, <<"Default score applied">> >>

(* C6: with no critical failure the verdict is True exactly when the       *)
(* overall score is at least the rubric's pass_threshold, 70 when the      *)
(* rubric has none                                                         *)
C6_ThresholdDecides ==
  (op = "determine_pass_fail" /\ Len(critical_failures) = 0) =>
    LET t == IF "pass_threshold" \in DOMAIN rubric THEN rubric.pass_threshold ELSE 70
    IN passed = (overall_score[1] >= t * overall_score[2])

C6_Witness ==
  /\ op = "determine_pass_fail"
  /\ Len(critical_failures) = 0
  /\ "pass_threshold" \notin DOMAIN rubric
  /\ overall_score = <<70, 1>>
  /\ passed = TRUE

(* C7: calculate_overall_score returns 0.0 whenever the weight of the      *)
(* scored dimensions adds up to 0, as for a rubric with no dimensions      *)
C7_ZeroWeightScoresZero ==
  op = "calculate_overall_score" =>
    LET scored == {i \in DOMAIN dimensions :
                     dimensions[i].id \in DOMAIN dimension_scores}
    IN /\ SumFn([i \in scored |-> WeightOf(dimensions[i])]) = 0
            => overall_score = <<0, 1>>
       /\ ("dimensions" \notin DOMAIN rubric \/ Len(rubric.dimensions) = 0)
            => overall_score = <<0, 1>>

C7_Witness ==
  /\ op = "calculate_overall_score"
  /\ Len(dimensions) > 0
  /\ \A i \in DOMAIN dimensions :
       /\ dimensions[i].id \in DOMAIN dimension_scores
       /\ dimension_scores[dimensions[i].id] = 100
       /\ WeightOf(dimensions[i]) = 0
  /\ overall_score = <<0, 1>>

(* C8: the risk-section check rejects a submission that is only the header *)
(* "## Risks" and accepts any risk header followed by at least 50          *)
(* characters of body text within the 200 characters after the match       *)
C8_RiskSectionNeedsBody ==
  op = "_has_risk_section" =>
    /\ ai_output.text = OnlyRisksHeader => ret = FALSE
    /\ (\E p \in 1..11 :
          /\ FirstMatch(ai_output.text, p, "risk_patterns") # 0
          /\ Len(Strip(AfterHeader(ai_output.text, p))) >= 50)
         => ret = TRUE

(* the end-to-end scenario: the completeness rubric graded without the LLM *)
(* on a submission that contains the five keywords                         *)
HasFiveKeywords(text) ==
  \A kw \in {"thesis", "valuation", "risk", "catalyst", "position"} : Contains(text, kw)

EndToEndCase ==
  /\ op \in {"main", "run_evaluation"}
  /\ rubric = CompletenessRubric
  /\ use_llm = FALSE
  /\ HasFiveKeywords(ai_output.text)

(* C9 as stated: in the end-to-end scenario the completeness scorer finds  *)
(* 5/5 sections, the completeness score is at least 85 and the verdict is  *)
(* passed = true                                                           *)
C9_EndToEndPasses ==
  EndToEndCase =>
    /\ SectionsFound(ai_output) = RequiredSections
    /\ dimension_scores["completeness"] >= 85
    /\ passed = TRUE

(* C9 amended: in the end-to-end scenario the completeness scorer finds    *)
(* 5/5 sections, the completeness score is at least 85 and is the overall  *)
(* score, and the verdict is passed = true exactly when grade reports no   *)
(* critical failure, which takes a risk section with content               *)
C9_EndToEndPassesUnlessCritical ==
  EndToEndCase =>
    /\ SectionsFound(ai_output) = RequiredSections
    /\ dimension_scores["completeness"] >= 85
    /\ overall_score = <<dimension_scores["completeness"], 1>>
    /\ passed = (Len(critical_failures) = 0)
    /\ passed => _has_risk_section(ai_output.text)

C9_Witness ==
  /\ op = "main"
  /\ rubric = CompletenessRubric
  /\ use_llm = FALSE
  /\ HasFiveKeywords(ai_output.text)
  /\ dimension_scores["completeness"] = 85
  /\ passed = TRUE

(* the submission contains a phrase of the guarantee list *)
ContainsGuaranteePhrase(text) ==
  \E i \in DOMAIN text : text[i][2] > 0 /\ text[i][1] \in {"guaranteed", "risk-free"}

(* C10: a submission with guarantee language gets the guarantee failure in *)
(* the critical failures returned by grade, and the verdict is             *)
(* passed = false whatever the scores                                      *)
C10_GuaranteeLanguageFails ==
  (op \in {"grade", "main", "run_evaluation"} /\ ContainsGuaranteePhrase(ai_output.text))
    => /\ \E i \in DOMAIN critical_failures :
            critical_failures[i] = "Contains forward-looking guarantees"
       /\ op \in {"main", "run_evaluation"} => passed = FALSE

C10_Witness ==
  /\ op = "main"
  /\ rubric = CompletenessRubric
  /\ ai_output.text = GuaranteeExample
  /\ \E i \in DOMAIN critical_failures :
       critical_failures[i] = "Contains forward-looking guarantees"
  /\ passed = FALSE

(* the submission has a calculation-context signal *)
HasCalculationContext(text) ==
  \E i \in DOMAIN text : text[i][2] > 0 /\ CalcPatternsOf(text[i][1]) # {}

(* the dollar figures of the submission, in order *)
DollarFigures(text) == SelectSeq(Tokens(text), IsDollarFigure)

(* the positions among the first 10 dollar figures whose figure is a       *)
(* substring of no value extracted from the scenario's key_facts           *)
UnmatchedAmongFirstTen(text, sc) ==
  LET figs == DollarFigures(text)
      facts == FactValues(Get(sc, "key_facts", <<>>))
  IN {i \in DOMAIN figs :
        i <= 10 /\ \A j \in DOMAIN facts : ~FigIn(figs[i], facts[j])}

(* C20: without calculation context the hallucination check flags exactly *)
(* when more than 5 of the first 10 dollar figures match no fact value; a  *)
(* submission with at most 5 figures is never flagged and figures after    *)
(* the tenth do not count                                                  *)
C20_HallucinationFirstTen ==
  (op = "_detect_hallucination" /\ ~HasCalculationContext(ai_output.text)) =>
    /\ ret = (Cardinality(UnmatchedAmongFirstTen(ai_output.text, scenario)) > 5)
    /\ Len(DollarFigures(ai_output.text)) <= 5 => ret = FALSE

C20_Witness ==
  /\ op = "_detect_hallucination"
  /\ ~HasCalculationContext(ai_output.text)
  /\ Len(DollarFigures(ai_output.text)) > 10
  /\ Cardinality(UnmatchedAmongFirstTen(ai_output.text, scenario)) = 5
  /\ DollarFigures(ai_output.text)[11] = "$7M"
  /\ \A v \in Range(FactValues(Get(scenario, "key_facts", <<>>))) : v # "$7M"
  /\ ret = FALSE

(* the number of entries of the list that equal the message *)
Occurrences(list, message) == Cardinality({i \in DOMAIN list : list[i] = message})

(* the scenario-declared rules of the call, in order *)
DeclaredRules(sc) ==
  Get(Get(sc, "evaluation_criteria", EmptyMap), "critical_failures", <<>>)

(* the checks of the call that fire, each decided on its own *)
HallucinationFires(text, sc) ==
  ~HasCalculationContext(text) /\ Cardinality(UnmatchedAmongFirstTen(text, sc)) > 5

FiringRules(text, sc) ==
  {i \in DOMAIN DeclaredRules(sc) :
     _check_scenario_critical_failure(text, DeclaredRules(sc)[i])}

(* C19: the list of critical failures has one entry for each check that   *)
(* fires (hallucination, missing risk section, guarantee language, each    *)
(* triggered scenario rule), whatever the other checks decide              *)
C19_ChecksIndependent ==
  op \in {"_check_critical_failures", "grade"} =>
    LET text == ai_output.text
        rules == DeclaredRules(scenario)
    IN /\ Occurrences(critical_failures, "Potential hallucinated data detected")
            = IF HallucinationFires(text, scenario) THEN 1 ELSE 0
       /\ Occurrences(critical_failures, "Missing or inadequate risk assessment section")
            = IF _has_risk_section(text) THEN 0 ELSE 1
       /\ Occurrences(critical_failures, "Contains forward-looking guarantees")
            = IF ContainsGuaranteePhrase(text) THEN 1 ELSE 0
       /\ \A i \in DOMAIN rules :
            Occurrences(critical_failures, ScenarioFailure(rules[i]))
              = IF i \in FiringRules(text, scenario) THEN 1 ELSE 0
       /\ Len(critical_failures)
            = (IF HallucinationFires(text, scenario) THEN 1 ELSE 0)
              + (IF _has_risk_section(text) THEN 0 ELSE 1)
              + (IF ContainsGuaranteePhrase(text) THEN 1 ELSE 0)
              + Cardinality(FiringRules(text, scenario))

C19_Witness ==
  /\ op = "_check_critical_failures"
  /\ HallucinationFires(ai_output.text, scenario)
  /\ ~_has_risk_section(ai_output.text)
  /\ ContainsGuaranteePhrase(ai_output.text)
  /\ critical_failures =
       <<"Potential hallucinated data detected",
         "Missing or inadequate risk assessment section",
         "Contains forward-looking guarantees">>

(* C17: over any sequence of grade calls on one engine, what a call       *)
(* returns is determined by the rubric and the call's arguments, a call    *)
(* with the arguments of an earlier one returns what the earlier one       *)
(* returned, and the engine's rubric, dimensions and pass_threshold stay   *)
(* what the constructor made them                                          *)
C17_GradeStateless ==
  /\ engine = <<rubric, InitDimensions(rubric), InitPassThreshold(rubric)>>
  /\ graded # <<>> => graded[1].engine = engine
  /\ op = "grade" =>
       /\ <<dimension_scores, critical_failures, detailed_feedback>>
            = grade(InitDimensions(rubric), ai_output, scenario, use_llm)
       /\ (graded # <<>> /\ graded[1].arguments = <<ai_output, scenario, use_llm>>)
            => graded[1].returned
                 = <<dimension_scores, critical_failures, detailed_feedback>>

C17_Witness ==
  /\ op = "grade"
  /\ graded # <<>>
  /\ graded[1].arguments = <<ai_output, scenario, use_llm>>
  /\ critical_failures # <<>>
  /\ dimension_scores # EmptyMap
  /\ graded[1].returned = <<dimension_scores, critical_failures, detailed_feedback>>

(* the scenario with every field the engine reads, an absent one given its *)
(* neutral value: no key facts, no evaluation criteria, no declared rule   *)
ScenarioWithDefaults(sc) ==
  LET criteria == Get(sc, "evaluation_criteria", EmptyMap)
  IN [k \in DOMAIN sc \cup {"key_facts", "evaluation_criteria"} |->
        IF k = "key_facts" THEN Get(sc, "key_facts", <<>>)
        ELSE IF k = "evaluation_criteria"
        THEN [j \in DOMAIN criteria \cup {"critical_failures"} |->
                IF j \in DOMAIN criteria THEN criteria[j] ELSE <<>>]
        ELSE sc[k]]

(* the rubric with its dimensions and pass_threshold, an absent one given  *)
(* its default                                                             *)
RubricWithDefaults(r) ==
  [k \in DOMAIN r \cup {"dimensions", "pass_threshold"} |->
     IF k \in DOMAIN r THEN r[k]
     ELSE IF k = "dimensions" THEN <<>> ELSE 70]

(* C16: constructing the engine and grading through to the verdict        *)
(* completes with a well-formed result for rubrics lacking dimensions or   *)
(* pass_threshold and scenarios lacking key_facts or evaluation_criteria   *)
(* ({} included), and the result is the one the same inputs give with each *)
(* missing field filled in with its neutral default; an id without a       *)
(* scorer is scored 70                                                     *)
C16_AbsentFieldsDefault ==
  op = "main" =>
    LET r == RubricWithDefaults(rubric)
        sc == ScenarioWithDefaults(scenario)
        g == grade(r.dimensions, ai_output, sc, use_llm)
        overall == calculate_overall_score(r.dimensions, g[1])
    IN /\ engine = <<rubric, r.dimensions, r.pass_threshold>>
       /\ <<dimension_scores, critical_failures, detailed_feedback>> = g
       /\ DOMAIN dimension_scores = {r.dimensions[i].id : i \in DOMAIN r.dimensions}
       /\ DOMAIN detailed_feedback = DOMAIN dimension_scores
       /\ \A id \in DOMAIN dimension_scores :
            (id \notin KnownDimensions /\ ~use_llm) => dimension_scores[id] = 70
       /\ overall_score = overall
       /\ overall_score \in Int \X (Nat \ {0})
       /\ passed = determine_pass_fail(r.pass_threshold, overall, g[2])
       /\ passed \in BOOLEAN

C16_Witness ==
  /\ op = "main"
  /\ "pass_threshold" \notin DOMAIN rubric
  /\ "critical_failures" \notin DOMAIN rubric
  /\ Len(dimensions) > 0
  /\ scenario = EmptyMap
  /\ critical_failures = <<>>
  /\ FracGeqInt(overall_score, 70)
  /\ passed = TRUE

(* C11 as stated: with accuracy 0 the composite is                        *)
(* alpha_logic * logic + alpha_format * format_quality whatever the        *)
(* length, and for (0, 0.5, 0.5, 1.0) it is 0.225                          *)
C11_GatedLengthExact ==
  (op = "composite" /\ signal.accuracy = FloatOfInt(0)) =>
    /\ ret = FloatAdd(FloatMul(FloatOfHundredths(30), signal.logic),
                      FloatMul(FloatOfHundredths(15), signal.format_quality))
    /\ (signal.logic = FloatOfHundredths(50)
          /\ signal.format_quality = FloatOfHundredths(50)
          /\ signal.length = FloatOfInt(1))
         => ret = RoundRat(BigOfInt(225), BigOfInt(1000))

(* C11 amended: with accuracy 0 the composite is the float sum             *)
(* 0.30 * logic + 0.15 * format_quality whatever the length; for           *)
(* (0, 0.5, 0.5, 1.0) that is 0.22499999999999998, the float next below    *)
(* 0.225                                                                   *)
C11_GatedLength ==
  (op = "composite" /\ signal.accuracy = FloatOfInt(0)) =>
    /\ ret = FloatAdd(FloatMul(FloatOfHundredths(30), signal.logic),
                      FloatMul(FloatOfHundredths(15), signal.format_quality))
    /\ (signal.logic = FloatOfHundredths(50)
          /\ signal.format_quality = FloatOfHundredths(50))
         => /\ ret = <<(<<13107, 26214, 19660, 57>>), 53>>
            /\ ret # RoundRat(BigOfInt(225), BigOfInt(1000))
            /\ FloatAdd(ret, <<(<<1>>), 55>>) = RoundRat(BigOfInt(225), BigOfInt(1000))

C11_Witness ==
  /\ op = "composite"
  /\ signal = RewardSignal(FloatOfInt(0), FloatOfHundredths(50),
                           FloatOfHundredths(50), FloatOfInt(1))
  /\ ret = <<(<<13107, 26214, 19660, 57>>), 53>>

(* C12: with the default weights the composite of axes in [0, 1] is in    *)
(* [0, 1]: 0 when all four are 0, 1 when all four are 1                    *)
C12_CompositeInUnitInterval ==
  op = "composite" =>
    /\ FloatGeq(ret, FloatOfInt(0))
    /\ FloatGeq(FloatOfInt(1), ret)
    /\ (\A axis \in DOMAIN signal : signal[axis] = FloatOfInt(0)) => ret = FloatOfInt(0)
    /\ (\A axis \in DOMAIN signal : signal[axis] = FloatOfInt(1)) => ret = FloatOfInt(1)

C12_Witness ==
  /\ op = "composite"
  /\ \A axis \in DOMAIN signal : signal[axis] = FloatOfInt(1)
  /\ ret = FloatOfInt(1)

RewardAxes == {"accuracy", "logic", "format_quality", "length"}

(* C13 as stated: whenever rubric_scores is supplied every axis is the    *)
(* supplied score over 100 (0.5 when the axis is not supplied) and the     *)
(* source is "rubric_scores"; the heuristics are used only when it is not  *)
(* supplied                                                                *)
C13_RubricScoresBypass ==
  op = "compute_reward" =>
    /\ rubric_scores # <<>> =>
         /\ \A axis \in RewardAxes :
              ret[axis] = FloatDiv(FloatOfInt(Get(rubric_scores[1], axis, 50)),
                                   FloatOfInt(100))
         /\ ret.explanations = [source |-> "rubric_scores"]
    /\ ret.explanations.source = "heuristic" => rubric_scores = <<>>

(* C13 amended: whenever rubric_scores is a non-empty mapping every axis  *)
(* is the supplied score over 100 (0.5 when the axis is not a key),        *)
(* whatever the text and the reference, and the source is "rubric_scores"; *)
(* with None or the empty mapping the four heuristic functions give the    *)
(* axes and the source is "heuristic"                                      *)
C13_NonEmptyRubricScoresBypass ==
  op = "compute_reward" =>
    IF rubric_scores # <<>> /\ DOMAIN rubric_scores[1] # {}
    THEN /\ \A axis \in RewardAxes :
              ret[axis] = FloatDiv(FloatOfInt(Get(rubric_scores[1], axis, 50)),
                                   FloatOfInt(100))
         /\ ret.explanations = [source |-> "rubric_scores"]
    ELSE /\ ret.accuracy = compute_accuracy(output_text, reference)
         /\ ret.logic = compute_logic(output_text)
         /\ ret.format_quality = compute_format(output_text)
         /\ ret.length = compute_length(output_text)
         /\ ret.explanations = [source |-> "heuristic"]

C13_Witness ==
  /\ op = "compute_reward"
  /\ rubric_scores = <<[length |-> 85]>>
  /\ output_text # <<>>
  /\ reference = <<output_text>>
  /\ ret.length = FloatOfHundredths(85)
  /\ ret.accuracy = FloatOfHundredths(50)
  /\ compute_accuracy(output_text, reference) = FloatOfInt(1)
  /\ ret.explanations.source = "rubric_scores"

(* C15: for a ranking of K labels the extraction returns K(K-1)/2 pairs,  *)
(* the value of count_pairs(K): exactly one pair for each two positions    *)
(* i < j, whose chosen text is the output ranked at i, whose rejected text *)
(* is the output ranked at j and whose rank_margin is j - i >= 1           *)
C15_AllPairsOnce ==
  op = "extract_pairwise_preferences" =>
    LET K == Len(ranked_labels)
        twice == K * (K - 1)
    IN /\ 2 * Len(ret) = twice
       /\ Len(ret) = count_pairs(K)
       /\ \A i, j \in 1..K :
            i < j => Cardinality({n \in DOMAIN ret :
                                    /\ ret[n].ranking_metadata.chosen_rank = i
                                    /\ ret[n].ranking_metadata.rejected_rank = j}) = 1
       /\ \A n \in DOMAIN ret :
            LET meta == ret[n].ranking_metadata
            IN /\ meta.chosen_rank \in 1..K /\ meta.rejected_rank \in 1..K
               /\ meta.chosen_rank < meta.rejected_rank
               /\ ret[n].chosen = outputs[ranked_labels[meta.chosen_rank]]
               /\ ret[n].rejected = outputs[ranked_labels[meta.rejected_rank]]
               /\ meta.rank_margin = meta.rejected_rank - meta.chosen_rank
               /\ meta.rank_margin >= 1

C15_Witness ==
  /\ op = "extract_pairwise_preferences"
  /\ ranked_labels = <<"A", "C", "B", "D">>
  /\ Len(ret) = 6
  /\ ret[3].ranking_metadata.rank_margin = 3
  /\ ret[3].chosen = outputs["A"]
  /\ ret[3].rejected = outputs["D"]

RewardKeys == {"chosen_score", "rejected_score", "reward_details"}

(* C14: annotate_pair_with_rewards sets chosen_score, rejected_score and  *)
(* reward_details on the pair and nothing else: every other key the pair   *)
(* had is still there with its value, no other key appears, and the pair   *)
(* is what the call returns                                                *)
C14_OnlyRewardKeysSet ==
  [][op' = "annotate_pair_with_rewards" =>
       /\ DOMAIN pair' = DOMAIN pair \cup RewardKeys
       /\ \A k \in DOMAIN pair \ RewardKeys : pair'[k] = pair[k]
       /\ ret' = pair']_vars

C14_Witness ==
  /\ op = "annotate_pair_with_rewards"
  /\ {"tags", "source", "mode", "ranking_metadata", "timestamp"} \subseteq DOMAIN pair
  /\ pair.tags = <<"test">>
  /\ reference # <<>>
  /\ RewardKeys \subseteq DOMAIN pair
  /\ pair.chosen_score # pair.rejected_score

(* C18: the read-modify-write of claim_task on tasks.json is not          *)
(* synchronized.  A request that returns success has written its own       *)
(* assignment into the list it saved, yet a readable file holds exactly    *)
(* the list of the request that wrote last, whatever others saved before:  *)
(* when two requests claim one open task for different users both return   *)
(* success and only the last writer's assignment is stored                 *)
C18_LastWriterWins ==
  /\ \A r \in Requests :
       result[r] = "claimed successfully" =>
         /\ pc[r] = "done"
         /\ tasks[r][1][request[r].task_id].assigned_to = request[r].user_id
  /\ (tasks_json.whole /\ tasks_json.last # <<>>) =>
       LET w == tasks_json.last[1]
       IN /\ tasks_json.tasks = tasks[w][1]
          /\ tasks_json.tasks[request[w].task_id].assigned_to = request[w].user_id
          /\ \A r \in Requests :
               (result[r] = "claimed successfully"
                  /\ request[r].task_id = request[w].task_id
                  /\ request[r].user_id # request[w].user_id)
                 => tasks_json.tasks[request[r].task_id].assigned_to # request[r].user_id

C18_Witness ==
  /\ request["r1"].task_id = request["r2"].task_id
  /\ request["r1"].user_id # request["r2"].user_id
  /\ result["r1"] = "claimed successfully"
  /\ result["r2"] = "claimed successfully"
  /\ tasks_json.whole
  /\ tasks_json.last = <<"r2">>
  /\ tasks_json.tasks[request["r1"].task_id].assigned_to = request["r2"].user_id
  /\ tasks["r1"][1][request["r1"].task_id].assigned_to = request["r1"].user_id

(* ---------------------------------------------------------------------- *)
(* C21                                                                     *)
(* ---------------------------------------------------------------------- *)

(* the tokens that carry a calculation-context signal: position sizing,   *)
(* attribution, a hedging framework, a terminal value                      *)
CalculationSignals == {"position", "attribution", "hedging framework", "terminal value"}

CarriesCalculationSignal(text) ==
  \E i \in DOMAIN text : text[i][2] > 0 /\ text[i][1] \in CalculationSignals

(* C21: a submission with a calculation-context signal is never flagged   *)
(* by the hallucination check, however many of its dollar figures match    *)
(* no fact of the scenario, and the list of critical failures has no       *)
(* hallucination entry for it                                              *)
C21_CalculationContextSkips ==
  /\ (op = "_detect_hallucination" /\ CarriesCalculationSignal(ai_output.text)) =>
       ret = FALSE
  /\ (op = "_check_critical_failures" /\ CarriesCalculationSignal(ai_output.text)) =>
       Occurrences(critical_failures, "Potential hallucinated data detected") = 0

C21_Witness ==
  /\ op = "_detect_hallucination"
  /\ \E i \in DOMAIN ai_output.text :
       ai_output.text[i] = Seg("hedging framework", 1)
  /\ Cardinality(UnmatchedAmongFirstTen(ai_output.text, scenario)) > 5
  /\ ret = FALSE

(* ---------------------------------------------------------------------- *)
(* C22                                                                     *)
(* ---------------------------------------------------------------------- *)

(* C22: the overall score and the verdict of run_evaluation are those of  *)
(* calculate_overall_score and determine_pass_fail of an engine built on   *)
(* the same rubric, for the scores and critical failures grade returned    *)
C22_RunnerAgreesWithAggregator ==
  op = "run_evaluation" =>
    /\ overall_score = calculate_overall_score(InitDimensions(rubric), dimension_scores)
    /\ passed = determine_pass_fail(InitPassThreshold(rubric),
                                    calculate_overall_score(InitDimensions(rubric),
                                                            dimension_scores),
                                    critical_failures)

(* ---------------------------------------------------------------------- *)
(* C23                                                                     *)
(* ---------------------------------------------------------------------- *)

(* the dimension ids listed in the rubric *)
RubricDimensionIds(r) ==
  {InitDimensions(r)[i]["id"] : i \in DOMAIN InitDimensions(r)}

(* C23: whether or not critical failures are found, grade (called on its  *)
(* own, by the CLI or by the evaluation runner) returns one score and one  *)
(* feedback per dimension of the rubric: the keys of dimension_scores and  *)
(* of detailed_feedback are the rubric's dimension ids                     *)
C23_EveryDimensionScored ==
  op \in {"grade", "main", "run_evaluation"} =>
    /\ DOMAIN dimension_scores = RubricDimensionIds(rubric)
    /\ DOMAIN detailed_feedback = RubricDimensionIds(rubric)

C23_Witness ==
  /\ op = "grade"
  /\ Len(critical_failures) >= 2
  /\ Cardinality(RubricDimensionIds(rubric)) = 5
  /\ DOMAIN dimension_scores = RubricDimensionIds(rubric)
  /\ DOMAIN detailed_feedback = RubricDimensionIds(rubric)

(* ---------------------------------------------------------------------- *)
(* C24                                                                     *)
(* ---------------------------------------------------------------------- *)

(* the float nearest to a / b, a and b natural numbers, b > 0 *)
NearestFloat(a, b) == RoundRat(BigOfInt(a), BigOfInt(b))

(* x < y on floats *)
FloatLess(x, y) == ~FloatGeq(x, y)

(* C24: compute_length of a text of n words is 1.0 exactly when            *)
(* 150 <= n <= 600, max(n/150, 0.1) when n < 150 and max(600/n, 0.2) when  *)
(* n > 600; it lies in [0.1, 1.0], is below 1.0 outside the window, does   *)
(* not decrease with one more word below the window and does not increase  *)
(* with one more word above it                                             *)
C24_LengthPiecewise ==
  op = "compute_length" =>
    LET n == WordCount(output_text)
        longer == compute_length(TextOfLength(n + 1, FALSE))
    IN /\ (n >= 150 /\ n <= 600) <=> ret = FloatOfInt(1)
       /\ n < 150 => ret = (IF 10 * n >= 150 THEN NearestFloat(n, 150)
                                              ELSE NearestFloat(1, 10))
       /\ n > 600 => ret = (IF 5 * 600 >= n THEN NearestFloat(600, n)
                                             ELSE NearestFloat(2, 10))
       /\ FloatGeq(ret, NearestFloat(1, 10)) /\ FloatGeq(FloatOfInt(1), ret)
       /\ (n < 150 \/ n > 600) => FloatLess(ret, FloatOfInt(1))
       /\ n + 1 < 150 => FloatGeq(longer, ret)
       /\ n > 600 => FloatGeq(ret, longer)

C24_Witness ==
  /\ op = "compute_length"
  /\ WordCount(output_text) = 601
  /\ output_text[1].marker = "-"
  /\ FloatLess(ret, FloatOfInt(1))
  /\ FloatLess(NearestFloat(99, 100), ret)

(* ---------------------------------------------------------------------- *)
(* C25: in a sequential run, claim_task on a task that exists and is not   *)
(* OPEN returns (False, "Task is not available ...") and leaves the stored *)
(* tasks unchanged, whoever the user is.                                   *)
(* ---------------------------------------------------------------------- *)
ClaimOnTakenTask ==
  /\ op' = "claim_task"
  /\ arguments'[1] \in DOMAIN data_dir.tasks
  /\ data_dir.tasks[arguments'[1]].status # "open"

C25_RefusalIsNotAvailable ==
  [][ClaimOnTakenTask =>
       ret' = <<FALSE, "Task is not available">> /\ data_dir' = data_dir]_vars

(* C25, amended: claim_task succeeds only on an OPEN task, which it gives  *)
(* to the user; on a task in any other status it changes nothing and       *)
(* returns (False, "Task is not available ...") for a registered user and  *)
(* (False, "User not found") for an unknown one; a task is unassigned      *)
(* exactly while it is OPEN, and an assignee is only ever removed by       *)
(* release_task, never replaced.                                           *)
C25_ClaimOnlyWhenOpen ==
  [][/\ ClaimOnTakenTask =>
          /\ data_dir' = data_dir
          /\ ret' = IF arguments'[2] \in DOMAIN data_dir.users
                    THEN <<FALSE, "Task is not available">>
                    ELSE <<FALSE, "User not found">>
     /\ (op' = "claim_task" /\ ret'[1]) =>
          /\ arguments'[1] \in DOMAIN data_dir.tasks
          /\ data_dir.tasks[arguments'[1]].status = "open"
          /\ data_dir'.tasks =
               Replaced(data_dir.tasks, arguments'[1],
                        [data_dir.tasks[arguments'[1]] EXCEPT
                           !.status = "claimed", !.assigned_to = arguments'[2]])
     /\ \A n \in DOMAIN data_dir'.tasks :
          (data_dir'.tasks[n].assigned_to = "None") <=> (data_dir'.tasks[n].status = "open")
     /\ \A n \in DOMAIN data_dir.tasks :
          /\ data_dir.tasks[n].assigned_to # "None"
          /\ data_dir'.tasks[n].assigned_to # data_dir.tasks[n].assigned_to
          => op' = "release_task" /\ ret'[1] /\ data_dir'.tasks[n].assigned_to = "None"]_vars

(* a registered user is refused a task that another user has started *)
C25_Witness ==
  /\ op = "claim_task"
  /\ ret = <<FALSE, "Task is not available">>
  /\ arguments[1] \in DOMAIN data_dir.tasks
  /\ data_dir.tasks[arguments[1]].status = "in_progress"
  /\ data_dir.tasks[arguments[1]].assigned_to \notin {"None", arguments[2]}

(* ---------------------------------------------------------------------- *)
(* C26: an approved task is paid, once: create_payment for a registered    *)
(* user whose tasks to pay are all theirs, all APPROVED and worth the      *)
(* minimum payout returns the payment it created.                          *)
(* ---------------------------------------------------------------------- *)
TasksToPay(d, user_id, task_ids) ==
  IF task_ids # {} THEN DOMAIN d.tasks \cap task_ids
  ELSE get_approved_unpaid_tasks(d, user_id)

Payable(d, user_id, task_ids) ==
  /\ user_id \in DOMAIN d.users
  /\ TasksToPay(d, user_id, task_ids) # {}
  /\ \A n \in TasksToPay(d, user_id, task_ids) :
       d.tasks[n].assigned_to = user_id /\ d.tasks[n].status = "approved"
  /\ gross_amount(d, d.users[user_id], TasksToPay(d, user_id, task_ids)) >= MIN_PAYOUT_AMOUNT

ReviewOutcomes == {"approved", "revision", "rejected"}

C27_OutcomeOnlyAfterSubmission ==
  [][\A n \in DOMAIN data_dir.tasks :
       /\ data_dir'.tasks[n].status # data_dir.tasks[n].status
       => /\ data_dir'.tasks[n].status \in ReviewOutcomes
             => data_dir.tasks[n].status \in {"submitted", "in_review"}
          /\ data_dir'.tasks[n].status = "paid"
             => data_dir.tasks[n].status = "approved"]_vars

(* ---------------------------------------------------------------------- *)
(* C28: a task is sent back for revision at most max_revisions times: a    *)
(* "revise" decision on a submission in review whose task has had that     *)
(* many revision requests is refused with "Maximum revisions exceeded" and *)
(* changes nothing, and revision_count stays within max_revisions.         *)
(* ---------------------------------------------------------------------- *)
(* the revision requests made for a task: a submission stays               *)
(* REVISION_REQUESTED once a review has asked for a revision               *)
RevisionsRequested(d, task_id) ==
  Cardinality({n \in DOMAIN d.submissions :
                 /\ d.submissions[n].task_id = task_id
                 /\ d.submissions[n].status = "revision_requested"})

C28_RevisionsBounded ==
  [][/\ \A n \in DOMAIN data_dir'.tasks :
          /\ data_dir'.tasks[n].revision_count <= data_dir'.tasks[n].max_revisions
          /\ RevisionsRequested(data_dir', n) <= data_dir'.tasks[n].max_revisions
     /\ \A n \in DOMAIN data_dir.submissions :
          /\ op' = "complete_review" /\ arguments'[1] = n /\ arguments'[3] = "revise"
          /\ data_dir.submissions[n].status = "in_review"
          /\ RevisionsRequested(data_dir, data_dir.submissions[n].task_id)
               >= data_dir.tasks[data_dir.submissions[n].task_id].max_revisions
          => ret' = <<FALSE, "Maximum revisions exceeded">> /\ data_dir' = data_dir]_vars

(* ---------------------------------------------------------------------- *)
(* C29: no submission has its contributor as current reviewer, and no      *)
(* review recorded on a submission is by its contributor.                  *)
(* ---------------------------------------------------------------------- *)
C29_NoSelfReview ==
  op \in {"assign_reviewer", "auto_assign_reviewer", "start_review", "complete_review"}
    => \A n \in DOMAIN data_dir.submissions :
         /\ data_dir.submissions[n].current_reviewer_id # data_dir.submissions[n].contributor_id
         /\ \A k \in DOMAIN data_dir.submissions[n].reviews :
              data_dir.submissions[n].reviews[k].reviewer_id
                # data_dir.submissions[n].contributor_id

(* ---------------------------------------------------------------------- *)
(* C30: create_payment for a payable user whose tax form is not collected  *)
(* leaves a payment in payments.json, ON_HOLD, for process_payment and     *)
(* complete_payment to take to PROCESSING and COMPLETED.                   *)
(* ---------------------------------------------------------------------- *)
C30_HeldPaymentIsStored ==
  (op = "create_payment" /\ Payable(data_dir, arguments[1], arguments[2]))
    => /\ data_dir.payments # <<>>
       /\ data_dir.payments[Len(data_dir.payments)].status = "on_hold"

====
